---- MODULE Spec2Model ----
(***************************************************************************)
(* Model of the instrument drivers K2400 (slave/keithley/k2400.py) and     *)
(* B2900 (slave/agilent/b2900.py): the command declarations of their       *)
(* driver trees, the Setup facades, and the command / codec / attribute    *)
(* interception layer they are built on.                                   *)
(***************************************************************************)
EXTENDS Integers, Sequences, FiniteSets, TLC

(***************************************************************************)
(* Native values.  Every value is a tagged record.  A number is the fixed  *)
(* point value w + u / 10^6 with 0 <= u < 10^6 (so -0.5 is w = -1,         *)
(* u = 500000).                                                            *)
(***************************************************************************)
Micro == 1000 * 1000

NoneV == [t |-> "none"]

Num(w, u) == [t |-> "num", w |-> w, u |-> u]

IntV(n) == Num(n, 0)

Bool(b) == [t |-> "bool", b |-> b]

Str(s) == [t |-> "str", s |-> s]

List(items) == [t |-> "seq", items |-> items]

IsNone(v) == v.t = "none"

NumLeq(a, b) == a.w < b.w \/ (a.w = b.w /\ a.u <= b.u)

NumLt(a, b) == a.w < b.w \/ (a.w = b.w /\ a.u < b.u)

Neg(a) == IF a.u = 0 THEN Num(0 - a.w, 0) ELSE Num(0 - a.w - 1, Micro - a.u)

\* variant: sixty power line cycles a second
Times60(a) == Num(a.w * 60 + ((a.u * 60) \div Micro), (a.u * 60) % Micro)

\* a * 50, as in  integration_time * 50
Times50(a) == Num(a.w * 50 + ((a.u * 50) \div Micro), (a.u * 50) % Micro)

\* int(x): truncation towards zero
Trunc(a) == IF a.u = 0 \/ a.w >= 0 THEN Num(a.w, 0) ELSE Num(a.w + 1, 0)

\* Python truth value of a native value
Truthy(v) ==
    CASE v.t = "none" -> FALSE
      [] v.t = "bool" -> v.b
      [] v.t = "num"  -> ~(v.w = 0 /\ v.u = 0)
      [] v.t = "str"  -> v.s # ""
      [] v.t = "seq"  -> Len(v.items) > 0

(***************************************************************************)
(* Type codecs (slave.types).  A codec converts a native value to a        *)
(* protocol token and back.                                                *)
(***************************************************************************)
Boolean == [k |-> "Boolean"]

Integer(lo, hi) == [k |-> "Integer", lo |-> lo, hi |-> hi]

Float(lo, hi) == [k |-> "Float", lo |-> lo, hi |-> hi]

\* table: sequence of <<native key, protocol token>> pairs, in source order
Mapping(table) == [k |-> "Mapping", table |-> table]

String == [k |-> "String"]

\* a command's type: the element types, and whether they repeat (Stream)
Single(type) == [types |-> <<type>>, rep |-> FALSE]

Fields(types) == [types |-> types, rep |-> FALSE]

Stream(type) == [types |-> <<type>>, rep |-> TRUE]

NoType == [types |-> <<>>, rep |-> FALSE]

Ok(x) == [ok |-> TRUE, val |-> x]

Err(e) == [ok |-> FALSE, err |-> e]

NumTok(x) == [t |-> "numtok", w |-> x.w, u |-> x.u]

Tok(s) == [t |-> "tok", s |-> s]

InRange(type, x) ==
    /\ (IsNone(type.lo) \/ NumLeq(type.lo, x))
    /\ (IsNone(type.hi) \/ NumLeq(x, type.hi))

\* index of the last pair of the table whose i-th component is x, 0 if none
RECURSIVE LastIndex(_, _, _, _)
LastIndex(table, i, x, n) ==
    IF n = 0 THEN 0
    ELSE IF table[n][i] = x THEN n
    ELSE LastIndex(table, i, x, n - 1)

MappingEncode(table, key) ==
    LET n == LastIndex(table, 1, key, Len(table))
    IN  IF n = 0 THEN Err("UnknownKeyError") ELSE Ok(Tok(table[n][2]))

MappingDecode(table, token) ==
    LET n == LastIndex(table, 2, token, Len(table))
    IN  IF n = 0 THEN Err("UnknownKeyError") ELSE Ok(Str(table[n][1]))

\* encode one native value
Encode(type, v) ==
    CASE type.k = "Boolean" -> Ok(Tok(IF Truthy(v) THEN "1" ELSE "0"))
      [] type.k = "Integer" ->
            IF v.t # "num" THEN Err("ValueError")
            ELSE IF InRange(type, Trunc(v)) THEN Ok(NumTok(Trunc(v)))
            ELSE Err("RangeError")
      [] type.k = "Float" ->
            IF v.t # "num" THEN Err("ValueError")
            ELSE IF InRange(type, v) THEN Ok(NumTok(v))
            ELSE Err("RangeError")
      [] type.k = "Mapping" ->
            IF v.t # "str" THEN Err("UnknownKeyError")
            ELSE MappingEncode(type.table, v.s)
      [] type.k = "String" ->
            IF v.t # "str" THEN Err("ValueError") ELSE Ok(Tok(v.s))

\* decode one protocol token
Decode(type, tok) ==
    CASE type.k = "Boolean" ->
            IF tok.t = "tok" /\ tok.s \in {"1", "ON", "on", "On"} THEN Ok(Bool(TRUE))
            ELSE IF tok.t = "tok" /\ tok.s \in {"0", "OFF", "off", "Off"} THEN Ok(Bool(FALSE))
            ELSE Err("ValueError")
      [] type.k = "Integer" ->
            IF tok.t # "numtok" THEN Err("ValueError")
            ELSE IF InRange(type, Num(tok.w, tok.u)) THEN Ok(Trunc(Num(tok.w, tok.u)))
            ELSE Err("RangeError")
      [] type.k = "Float" ->
            IF tok.t # "numtok" THEN Err("ValueError")
            ELSE IF InRange(type, Num(tok.w, tok.u)) THEN Ok(Num(tok.w, tok.u))
            ELSE Err("RangeError")
      [] type.k = "Mapping" ->
            IF tok.t # "tok" THEN Err("UnknownKeyError")
            ELSE MappingDecode(type.table, tok.s)
      [] type.k = "String" ->
            IF tok.t # "tok" THEN Err("ValueError") ELSE Ok(Str(tok.s))

\* the type of the i-th datum of a command type
TypeAt(ctype, i) == IF ctype.rep THEN ctype.types[1] ELSE ctype.types[i]

\* number of data the command type consumes out of n given
Consumed(ctype, n) ==
    IF ctype.rep \/ n <= Len(ctype.types) THEN n ELSE Len(ctype.types)

\* encode the data of a message unit: the first failure is the result
RECURSIVE DumpFrom(_, _, _, _)
DumpFrom(ctype, data, i, acc) ==
    IF i > Consumed(ctype, Len(data)) THEN Ok(acc)
    ELSE LET r == Encode(TypeAt(ctype, i), data[i])
         IN  IF r.ok THEN DumpFrom(ctype, data, i + 1, Append(acc, r.val)) ELSE r

Dump(ctype, data) == DumpFrom(ctype, data, 1, <<>>)

RECURSIVE LoadFrom(_, _, _, _)
LoadFrom(ctype, toks, i, acc) ==
    IF i > Consumed(ctype, Len(toks)) THEN Ok(acc)
    ELSE LET r == Decode(TypeAt(ctype, i), toks[i])
         IN  IF r.ok THEN LoadFrom(ctype, toks, i + 1, Append(acc, r.val)) ELSE r

Load(ctype, toks) == LoadFrom(ctype, toks, 1, <<>>)

(***************************************************************************)
(* Commands.  A header is a program mnemonic path: an optional leading     *)
(* colon, the root mnemonic with its numeric suffix (0: no suffix) and the *)
(* remaining mnemonics.  The query header is stored without its '?'.       *)
(***************************************************************************)
H(lead, root, c, path) == [lead |-> lead, root |-> root, c |-> c, path |-> path]

NoHdr == [lead |-> FALSE, root |-> "", c |-> 0, path |-> <<>>]

Command(query, write, type_) == [q |-> query, w |-> write, type |-> type_]

\* variant: the mode is ignored, both templates are always kept
command_ignoresMode(query, write, type_, mode) == Command(query, write, type_)

\* _command(mapping, query, write, type_, protocol, mode)
command(query, write, type_, mode) ==
    Command(IF mode \in {"w", "wo"} THEN NoHdr ELSE query,
            IF mode \in {"r", "ro"} THEN NoHdr ELSE write,
            type_)

(***************************************************************************)
(* Driver nodes and the attributes their constructors declare.             *)
(***************************************************************************)
\* a driver object: its class, its channel, the attribute path that leads
\* to it, and its constructor arguments
Node(cls, c, at, arg, ulim) ==
    [cls |-> cls, c |-> c, at |-> at, arg |-> arg, ulim |-> ulim]

NoNode == Node("", 0, <<>>, <<>>, NoneV)

NoCmd == Command(NoHdr, NoHdr, NoType)

\* self.attr = Command(...)
DCmd(cmd) == [kind |-> "cmd", cmd |-> cmd, node |-> NoNode, attr |-> "", nodes |-> <<>>]

\* self.attr = <the Command object already bound to node.attr>
DRef(node, attr) ==
    [kind |-> "ref", cmd |-> NoCmd, node |-> node, attr |-> attr, nodes |-> <<>>]

\* self.attr = <a child Driver>
DDrv(node) == [kind |-> "drv", cmd |-> NoCmd, node |-> node, attr |-> "", nodes |-> <<>>]

\* self.attr = tuple(<child Driver> for x in ch)
DTuple(nodes) ==
    [kind |-> "tuple", cmd |-> NoCmd, node |-> NoNode, attr |-> "", nodes |-> nodes]

\* self.attr = <any other object>
DObj == [kind |-> "obj", cmd |-> NoCmd, node |-> NoNode, attr |-> "", nodes |-> <<>>]

\* variant: twice the current limit
I_MAX_doubled == 2 * 10

I_MAX == 10

V_MAX == 210

R_MAX == 200000000

K2400_format_elements ==
    << <<"voltage", "VOLT">>, <<"current", "CURR">>, <<"resistance", "RES">>,
       <<"time", "TIME">>, <<"status", "STAT">> >>

K2400_sense_functions ==
    << <<"voltage", "\"VOLT:DC\"">>, <<"current", "\"CURR:DC\"">>,
       <<"resistance", "\"RES\"">> >>

\* variant: both source functions are sent as 'VOLT'
K2400_source_functions_sameToken == << <<"voltage", "VOLT">>, <<"current", "VOLT">> >>

K2400_source_functions == << <<"voltage", "VOLT">>, <<"current", "CURR">> >>

K2400_trigger_sources == << <<"immediate", "IMM">>, <<"tlink", "TLIN">> >>

\* variant: two arm sources share the token 'NST'
K2400_arm_sources_dupToken ==
    << <<"immediate", "IMM">>, <<"tlink", "TLIN">>, <<"timer", "TIM">>,
       <<"manual", "MAN">>, <<"bus", "BUS">>, <<"nstest", "NST">>,
       <<"pstest", "PST">>, <<"bstest", "NST">> >>

K2400_arm_sources ==
    << <<"immediate", "IMM">>, <<"tlink", "TLIN">>, <<"timer", "TIM">>,
       <<"manual", "MAN">>, <<"bus", "BUS">>, <<"nstest", "NST">>,
       <<"pstest", "PST">>, <<"bstest", "BST">> >>

ResistanceModes == << <<"auto", "AUTO">>, <<"manual", "MAN">> >>

FunctionShapes == << <<"pulse", "PULS">>, <<"dc", "DC">> >>

SweepDirections == << <<"up", "UP">>, <<"down", "DOWN">> >>

SweepRangings == << <<"best", "BEST">>, <<"fixed", "FIX">>, <<"auto", "AUTO">> >>

SweepSpacings == << <<"linear", "LIN">>, <<"logarithmic", "LOG">> >>

SourceModes == << <<"sweep", "SWE">>, <<"list", "LIST">>, <<"fixed", "FIX">> >>

K2400_off_modes ==
    << <<"high-impedance", "HIMP">>, <<"normal", "NORM">>, <<"zero", "ZERO">>,
       <<"guard", "GUAR">> >>

\* k2400.Triggering.__init__
K2400_Triggering(n) ==
    LET l == n.arg[1]
        mode == "rw"
    IN  ("count" :> DCmd(command(H(TRUE, l, 0, <<"COUN">>), H(TRUE, l, 0, <<"COUN">>),
                                 Single(Integer(IntV(1), IntV(2500))), mode)))
     @@ ("source" :> DCmd(command(H(TRUE, l, 0, <<"SOUR">>), H(TRUE, l, 0, <<"SOUR">>),
                                  Single(Mapping(IF l = "TRIG" THEN K2400_trigger_sources
                                                 ELSE K2400_arm_sources)), mode)))
     @@ (IF l = "ARM"
         THEN "timer" :> DCmd(command(H(TRUE, l, 0, <<"TIM">>), H(TRUE, l, 0, <<"TIM">>),
                                      Single(Float(Num(0, 1000), Num(99999, 990000))), mode))
         ELSE "delay" :> DCmd(command(H(TRUE, l, 0, <<"DEL">>), H(TRUE, l, 0, <<"DEL">>),
                                      Single(Float(IntV(0), Num(999, 999900))), mode)))

\* k2400.SubSense.__init__
K2400_SubSense(n) ==
    LET c == n.c
        f == n.arg[1]
        ulim == n.ulim
        m(path) == H(TRUE, "SENS", c, <<f>> \o path)
    IN  ("nplc" :> DCmd(command(m(<<"NPLC">>), m(<<"NPLC">>),
                                Single(Float(Num(0, 10000), IntV(10))), "rw")))
     @@ ("auto_range" :> DCmd(command(m(<<"RANG", "AUTO">>), m(<<"RANGE", "AUTO">>),
                                      Single(Boolean), "rw")))
     @@ ("range" :> DCmd(command(m(<<"RANG">>), m(<<"RANG">>),
                                 Single(Float(IntV(0), ulim)), "rw")))
     @@ (IF f \in {"VOLT", "CURR"}
         THEN ("compliance" :> DCmd(command(m(<<"PROT">>), m(<<"PROT">>),
                                            Single(Float(IntV(0), ulim)), "rw")))
           @@ ("is_in_compliance" :> DCmd(command(m(<<"PROT", "TRIP">>), NoHdr,
                                                  Single(Boolean), "rw")))
         ELSE ("offset_compensated" :> DCmd(command(m(<<"OCOM">>), m(<<"OCOM">>),
                                                    Single(Boolean), "rw")))
           @@ ("mode" :> DCmd(command(m(<<"MODE">>), m(<<"MODE">>),
                                      Single(Mapping(ResistanceModes)), "rw"))))

\* k2400.Sense.__init__
K2400_Sense(n) ==
    LET c == n.c
        sub(a, f, ulim) == DDrv(Node("SubSense", c, Append(n.at, a), <<f>>, ulim))
    IN  ("remote_sense" :> DCmd(command(H(FALSE, "SYST", 0, <<"RSEN">>),
                                        H(TRUE, "SYST", 0, <<"RSEN">>),
                                        Single(Boolean), "rw")))
     @@ ("four_wire" :> DRef(n, "remote_sense"))
     @@ ("voltage" :> sub("voltage", "VOLT", IntV(V_MAX)))
     @@ ("current" :> sub("current", "CURR", IntV(I_MAX)))
     @@ ("resistance" :> sub("resistance", "RES", IntV(R_MAX)))

\* k2400.SourceSweep.__init__
K2400_SourceSweep(n) ==
    LET m(x) == H(TRUE, "SOUR", n.c, <<"SWE", x>>)
    IN  ("direction" :> DCmd(command(m("DIR"), m("DIR"), Single(Mapping(SweepDirections)), "rw")))
     @@ ("points" :> DCmd(command(m("POIN"), m("POIN"),
                                  Single(Integer(IntV(2), IntV(2500))), "rw")))
     @@ ("ranging" :> DCmd(command(m("RANG"), m("RANG"), Single(Mapping(SweepRangings)), "rw")))
     @@ ("spacing" :> DCmd(command(m("SPAC"), m("SPAC"), Single(Mapping(SweepSpacings)), "rw")))

\* k2400.SourceListSequence.__init__ ; n.arg[1] is the node, n.ulim bounds the type
K2400_SourceListSequence(n) ==
    LET type == Float(Neg(n.ulim), n.ulim)
    IN  ("_extend" :> DCmd(command(NoHdr, H(TRUE, "SOUR", n.c, <<"LIST", n.arg[1], "APPEND">>),
                                   NoType, "rw")))
     @@ ("_sequence" :> DCmd(command(H(TRUE, "SOUR", n.c, <<"LIST", n.arg[1]>>),
                                     H(TRUE, "SOUR", n.c, <<"LIST", n.arg[1]>>),
                                     Stream(type), "rw")))

\* k2400.SourceList.__init__
K2400_SourceList(n) ==
    ("current" :> DDrv(Node("SourceListSequence", n.c, Append(n.at, "current"),
                            <<"CURR">>, IntV(I_MAX))))
 @@ ("voltage" :> DDrv(Node("SourceListSequence", n.c, Append(n.at, "voltage"),
                            <<"VOLT">>, IntV(V_MAX))))

\* k2400.SubSource.__init__
K2400_SubSource(n) ==
    LET c == n.c
        f == n.arg[1]
        ulim == n.ulim
        m(x) == H(TRUE, "SOUR", c, <<f, x>>)
        sym == Single(Float(Neg(ulim), ulim))
        rw(x, type) == DCmd(command(m(x), m(x), type, "rw"))
    IN  ("level" :> rw("LEV", sym))
     @@ ("amplitude" :> DRef(n, "level"))
     @@ ("level_triggered" :> rw("TRIG", sym))
     @@ ("mode" :> rw("MODE", Single(Mapping(SourceModes))))
     @@ ("range" :> rw("RANG", Single(Float(IntV(0), ulim))))
     @@ ("auto_range" :> DCmd(command(H(TRUE, "SOUR", c, <<f, "RANG", "AUTO">>),
                                      H(TRUE, "SOUR", c, <<f, "RANG", "AUTO">>),
                                      Single(Boolean), "rw")))
     @@ ("center" :> rw("CENT", sym))
     @@ ("sweep_center" :> DRef(n, "center"))
     @@ ("span" :> rw("SPAN", sym))
     @@ ("sweep_span" :> DRef(n, "span"))
     @@ ("points" :> DCmd(command(H(TRUE, "SOUR", c, <<"POIN">>), H(TRUE, "SOUR", c, <<"POIN">>),
                                  Single(Integer(IntV(1), IntV(2500))), "rw")))
     @@ ("sweep_points" :> DRef(n, "points"))
     @@ ("step" :> rw("STEP", Single(Float(IntV(0), NoneV))))
     @@ ("sweep_step" :> DRef(n, "step"))
     @@ ("start" :> rw("STAR", sym))
     @@ ("sweep_start" :> DRef(n, "start"))
     @@ ("stop" :> rw("STOP", sym))
     @@ ("sweep_stop" :> DRef(n, "stop"))
     @@ ("list" :> DDrv(Node("SourceListSequence", c, Append(n.at, "list"), <<f>>, ulim)))

\* k2400.Source.__init__
K2400_Source(n) ==
    LET c == n.c
    IN  ("mode" :> DCmd(command(H(TRUE, "SOUR", c, <<"FUNC", "MODE">>),
                                H(TRUE, "SOUR", c, <<"FUNC", "MODE">>),
                                Single(Mapping(K2400_source_functions)), "rw")))
     @@ ("function_mode" :> DRef(n, "mode"))
     @@ ("function_shape" :> DCmd(command(H(TRUE, "SOUR", c, <<"FUNC", "SHAPE">>),
                                          H(TRUE, "SOUR", c, <<"FUNC", "SHAPE">>),
                                          Single(Mapping(FunctionShapes)), "rw")))
     @@ ("sweep" :> DDrv(Node("SourceSweep", c, Append(n.at, "sweep"), <<>>, NoneV)))
     @@ ("list" :> DDrv(Node("SourceList", c, Append(n.at, "list"), <<>>, NoneV)))
     @@ ("current" :> DDrv(Node("SubSource", c, Append(n.at, "current"), <<"CURR">>, IntV(I_MAX))))
     @@ ("voltage" :> DDrv(Node("SubSource", c, Append(n.at, "voltage"), <<"VOLT">>, IntV(V_MAX))))

\* k2400.Format.__init__
K2400_Format(n) ==
    ("elements" :> DCmd(Command(H(TRUE, "FORM", 0, <<"ELEM", "SENS">>),
                                H(TRUE, "FORM", 0, <<"ELEM", "SENS">>),
                                Stream(Mapping(K2400_format_elements)))))
 @@ ("sense_elements" :> DRef(n, "elements"))

\* k2400.Output.__init__
K2400_Output(n) ==
    LET c == n.c
    IN  ("state" :> DCmd(command(H(TRUE, "OUTP", c, <<>>), H(FALSE, "OUTP", c, <<>>),
                                 Single(Boolean), "rw")))
     @@ ("interlock_state" :> DCmd(command(H(TRUE, "OUTP", c, <<"INT", "STAT">>),
                                           H(TRUE, "OUTP", c, <<"INT", "STAT">>),
                                           Single(Boolean), "rw")))
     @@ ("interlock_tripped" :> DCmd(command(H(TRUE, "OUTP", c, <<"INT", "TRIP">>), NoHdr,
                                             Single(Boolean), "rw")))
     @@ ("off_mode" :> DCmd(command(H(TRUE, "OUTP", c, <<"SMODE">>),
                                    H(TRUE, "OUTP", c, <<"SMODE">>),
                                    Single(Mapping(K2400_off_modes)), "rw")))

\* k2400.Trace.__init__
K2400_Trace(n) ==
    LET c == n.c
    IN  ("free" :> DCmd(command(H(TRUE, "TRAC", c, <<"FREE">>), H(TRUE, "TRAC", c, <<"FREE">>),
                                Fields(<<Integer(NoneV, NoneV), Integer(NoneV, NoneV)>>), "rw")))
     @@ ("points" :> DCmd(command(H(TRUE, "TRAC", c, <<"POIN">>), H(FALSE, "TRAC", c, <<"POIN">>),
                                  Single(Integer(IntV(1), IntV(100000))), "rw")))
     @@ ("actual_points" :> DCmd(command(H(TRUE, "TRAC", c, <<"POIN", "ACT">>), NoHdr,
                                         Single(Integer(NoneV, NoneV)), "rw")))

B2900_elements ==
    << <<"voltage", "VOLT">>, <<"current", "CURR">>, <<"resistance", "RES">>,
       <<"time", "TIME">>, <<"status", "STAT">>, <<"source", "SOUR">> >>

B2900_sense_functions ==
    << <<"voltage", "\"VOLT\"">>, <<"current", "\"CURR\"">>, <<"resistance", "\"RES\"">> >>

B2900_source_functions == << <<"voltage", "VOLT">>, <<"current", "CURR">> >>

\* b2900.Triggering._sources, with the entries the class body adds for ext1..ext14
B2900_sources ==
    << <<"automatic internal", "AINT">>, <<"bus", "BUS">>, <<"timer", "TIM">>,
       <<"internal1", "INT1">>, <<"internal2", "INT2">>, <<"lan", "LAN">>,
       <<"ext1", "1">>, <<"ext2", "2">>, <<"ext3", "3">>, <<"ext4", "4">>, <<"ext5",
       "5">>, <<"ext6", "6">>, <<"ext7", "7">>, <<"ext8", "8">>, <<"ext9", "9">>,
       <<"ext10", "10">>, <<"ext11", "11">>, <<"ext12", "12">>, <<"ext13", "13">>,
       <<"ext14", "14">> >>

B2900_source_lan ==
    << <<"lan0", "LAN0">>, <<"lan1", "LAN1">>, <<"lan2", "LAN2">>, <<"lan3", "LAN3">>,
       <<"lan4", "LAN4">>, <<"lan5", "LAN5">>, <<"lan6", "LAN6">>, <<"lan7", "LAN7">> >>

B2900_trigger_outputs ==
    << <<"ext0", "EXT0">>, <<"ext1", "EXT1">>, <<"ext2", "EXT2">>, <<"ext3", "EXT3">>,
       <<"ext4", "EXT4">>, <<"ext5", "EXT5">>, <<"ext6", "EXT6">>, <<"ext7", "EXT7">>,
       <<"ext8", "EXT8">>, <<"ext9", "EXT9">>, <<"ext10", "EXT10">>, <<"ext11",
       "EXT11">>, <<"ext12", "EXT12">>, <<"ext13", "EXT13">>, <<"ext14", "EXT14">>,
       <<"lan", "LAN">>, <<"int1", "INT1">>, <<"int2", "INT2">> >>

SweepModes == << <<"single", "SING">>, <<"double", "DOUB">> >>

LowStates == << <<"float", "FLO">>, <<"ground", "GRO">> >>

B2900_off_modes == << <<"high-impedance", "HIZ">>, <<"normal", "NORM">>, <<"zero", "ZERO">> >>

\* the Mapping tables of k2000.py, in the order of their declaration
K2000_mappings ==
    <<
       << <<"current_ac", "CURR:AC">>, <<"current", "CURR:DC">>, <<"voltage_ac", "VOLT:AC">>,
                 <<"volt_dc", "VOLT:DC">>, <<"resistance", "RES">>, <<"fresistance", "FRES">>,
                 <<"period", "PER">>, <<"frequency", "FREQ">>, <<"temperature", "TEMP">>,
                 <<"diode", "DIOD">>, <<"continuity", "CONT">> >>,
       << <<"immediate", "IMM">>, <<"external", "EXT">>, <<"timer", "TIM">>, <<"manual", "MAN">>,
                 <<"bus", "BUS">> >>,
       << <<"current_ac", "\"CURR:AC\"">>, <<"current", "\"CURR:DC\"">>, <<"voltage_ac",
                 "\"VOLT:AC\"">>, <<"volt_dc", "\"VOLT:DC\"">>, <<"resistance", "\"RES\"">>,
                 <<"fresistance", "\"FRES\"">>, <<"period", "\"PER\"">>, <<"frequency",
                 "\"FREQ\"">>, <<"temperature", "\"TEMP\"">>, <<"diode", "\"DIOD\"">>,
                 <<"continuity", "\"CONT\"">> >>,
       << <<"sense", "SENSe">>, <<"calculate", "CALC">>, <<"none", "NONE">> >>,
       << <<"never", "NEV">>, <<"next", "NEXT">> >>
    >>

\* the Mapping tables of k6487.py, in the order of their declaration
K6487_mappings ==
    <<
       << <<"current", "CURRent">> >>,
       << <<"reading", "READ">>, <<"units", "UNIT">>, <<"voltage", "VSO">>, <<"timestamp",
                 "TIME">>, <<"status", "STAT">>, <<"default", "DEF">>, <<"all", "ALL">> >>,
       << <<"mean", "MEAN">>, <<"sdeviation", "SDEV">>, <<"maximum", "MAX">>, <<"minimum", "MIN">>,
                 <<"PKPK", "PKPK">> >>,
       << <<"immediate", "IMM">>, <<"external", "EXT">>, <<"timer", "TIM">>, <<"manual", "MAN">>,
                 <<"bus", "BUS">>, <<"tlink", "TLIN">>, <<"nstest", "NST">>, <<"bstest", "BST">> >>,
       << <<"ascii", "ASC">>, <<"real", "REAL">>, <<"32", "32">>, <<"sreal", "SRE">> >>,
       << <<"normal", "NORM">>, <<"swapped", "SWAP">> >>,
       << <<"ascii", "ASC">>, <<"hexadecimal", "HEX">>, <<"octal", "OCT">>, <<"binary", "BIN">> >>,
       << <<"50", "50">>, <<"60", "60">> >>,
       << <<"immediate", "IMM">>, <<"tlink", "TLIN">> >>,
       << <<"current", "\"CURRent\"">> >>,
       << <<"sense", "SENSe">>, <<"calculate", "CALC">>, <<"none", "NONE">> >>,
       << <<"never", "NEV">>, <<"next", "NEXT">> >>
    >>

\* the Mapping tables of k6517b.py, in the order of their declaration
K6517B_mappings ==
    <<
       << <<"Voltage", "VOLT">>, <<"Amps", "CURR">>, <<"Ohms", "RES">>, <<"Coulombs", "CHAR">> >>,
       << <<"none", "NONE">>, <<"polynomial", "POL">>, <<"percent", "PER">>, <<"ratio", "RAT">>,
                 <<"deviation", "DEV">>, <<"pdeviation", "PDEV">>, <<"log10", "LOG">> >>,
       << <<"none", "NONE">>, <<"mean", "MEAN">>, <<"sdeviation", "SDEV">>, <<"maximum", "MAX">>,
                 <<"minimum", "MIN">>, <<"peak-to-peak", "PKPK">> >>,
       << <<"ascii", "ASC">>, <<"real32", "REAL32">>, <<"real64", "REAL64">>, <<"sreal", "SRE">>,
                 <<"dreal", "DRE">> >>,
       << <<"reading", "READ">>, <<"channel", "CHAN">>, <<"reading number", "RNUM">>, <<"units",
                 "UNIT">>, <<"timestamp", "TST">>, <<"status", "STAT">>, <<"external temperature",
                 "ETEM">>, <<"humidity", "HUM">>, <<"V-source", "VSO">> >>,
       << <<"normal", "NORM">>, <<"swapped", "SWAP">> >>,
       << <<"high", "AHIG">>, <<"low", "ALOW">> >>,
       << <<"internal", "INT">>, <<"external", "EXT">>, <<"none", "NONE">> >>,
       << <<"break-before-make", "VOLT">>, <<"normal", "CURR">> >>,
       << <<"none", "NONE">>, <<"scalar", "SCAL">>, <<"advanced", "ADV">> >>,
       << <<"moving", "MOV">>, <<"repeat", "REP">> >>,
       << <<"manual", "MAN">>, <<"auto", "AUTO">> >>,
       << <<"normal", "NORM">>, <<"resistivity", "RES">> >>,
       << <<"M8009", "M8009">>, <<"user-supplied", "USER">> >>,
       << <<"surface", "SURF">>, <<"volumn", "VOL">> >>,
       << <<"rst", "RST">>, <<"preset", "PRES">>, <<"sav0", "SAVE0">>, <<"sav1", "SAVE1">>,
                 <<"sav2", "SAVE2">>, <<"sav3", "SAVE3">>, <<"sav4", "SAVE4">>, <<"sav5",
                 "SAVE5">>, <<"sav6", "SAVE6">>, <<"sav7", "SAVE7">>, <<"sav8", "SAVE8">>,
                 <<"sav9", "SAVE9">> >>,
       << <<"relative", "REL">>, <<"rtclock", "RTC">> >>,
       << <<"external", "EXT">>, <<"tlink", "TLIN">>, <<"bus", "BUS">>, <<"manual", "MAN">> >>,
       << <<"absolute", "ABS">>, <<"delta", "DELT">> >>,
       << <<"timestamp", "TST">>, <<"humidity", "HUM">>, <<"channel", "CHAN">>, <<"etemperature",
                 "ETEM">>, <<"vsource", "VSO">>, <<"none", "NONE">> >>,
       << <<"include", "INCL">>, <<"exclude", "EXCL">> >>,
       << <<"hold", "HOLD">>, <<"immediate", "IMM">>, <<"timer", "TIM">>, <<"manual", "MAN">>,
                 <<"bus", "BUS">>, <<"tlink", "TLIN">>, <<"external", "EXT">> >>,
       << <<"asynchronous", "ASYN">>, <<"ssynchronous", "SSYN">> >>,
       << <<"enable", "SOUR">>, <<"disable", "ACC">> >>,
       << <<"DLEakage", "DLE">>, <<"CLEakage", "CLE">>, <<"CIResistance", "CIR">>,
                 <<"RVCoefficient", "RVC">>, <<"SRESistivity", "SRE">>, <<"VRESistivity", "VRES">>,
                 <<"SIResistivity", "SIR">>, <<"SQSWeep", "SQSW">>, <<"STSWeep", "STSW">>,
                 <<"ALTPolarity", "ALTP">> >>,
       << <<"immediate", "IMM">>, <<"manual", "MAN">>, <<"bus", "BUS">>, <<"external", "EXT">>,
                 <<"tlink", "TLIN">>, <<"lclosuer", "LCL">> >>,
       << <<"Celsius", "C">>, <<"CELsius", "CEL">>, <<"Fahrenheit", "F">>, <<"FAhRenheit", "FAR">>,
                 <<"Kelvin", "K">> >>
    >>

\* b2900.Triggering.__init__
B2900_Triggering(n) ==
    LET c == n.c
        l == n.arg[1]
        a == n.arg[2]
        mode == IF a = "ALL" THEN "wo" ELSE "rw"
        m(path) == H(TRUE, l, c, <<a>> \o path)
        cmd(path, type) == DCmd(command(m(path), m(path), type, mode))
        child(name, action) ==
            DDrv(Node("Triggering", c, Append(n.at, name), <<l, action>>, NoneV))
    IN  (IF a = "ALL"
         THEN ("transient" :> child("transient", "TRAN")) @@ ("acquire" :> child("acquire", "ACQ"))
         ELSE [x \in {} |-> NoneV])
     @@ ("bypass" :> cmd(<<"BYP">>, Single(Boolean)))
     @@ ("count" :> cmd(<<"COUN">>, Single(Integer(IntV(1), IntV(100000)))))
     @@ ("delay" :> cmd(<<"DEL">>, Single(Float(IntV(0), IntV(100)))))
     @@ ("source_lan" :> cmd(<<"SOUR", "LAN">>, Stream(Mapping(B2900_source_lan))))
     @@ ("source" :> cmd(<<"SOUR">>, Single(Mapping(B2900_sources))))
     @@ ("timer" :> cmd(<<"TIM">>, Single(Float(Num(0, 20), IntV(100000)))))
     @@ ("output_signal" :> cmd(<<"TOUT", "SIGN">>, Stream(Mapping(B2900_trigger_outputs))))
     @@ ("output_state" :> cmd(<<"TOUT", "STAT">>, Single(Boolean)))

\* b2900.SubSense.__init__
B2900_SubSense(n) ==
    LET c == n.c
        f == n.arg[1]
        ulim == n.ulim
        m(path) == H(TRUE, "SENS", c, <<f>> \o path)
    IN  ("aperture" :> DCmd(command(m(<<"APER">>), m(<<"APER">>),
                                    Single(Float(Num(0, 8), IntV(2))), "rw")))
     @@ ("nplc" :> DCmd(command(m(<<"NPLC">>), m(<<"NPLC">>),
                                Single(Float(Num(0, 10000), IntV(10))), "rw")))
     @@ ("auto_range" :> DCmd(command(m(<<"RANG", "AUTO">>), m(<<"RANGE", "AUTO">>),
                                      Single(Boolean), "rw")))
     @@ ("range" :> DCmd(command(m(<<"RANG">>), m(<<"RANG">>),
                                 Single(Float(IntV(0), ulim)), "rw")))
     @@ (IF f \in {"VOLT", "CURR"}
         THEN ("compliance" :> DCmd(command(m(<<"PROT">>), m(<<"PROT">>),
                                            Single(Float(IntV(0), ulim)), "rw")))
           @@ ("is_in_compliance" :> DCmd(command(m(<<"PROT", "TRIP">>), NoHdr,
                                                  Single(Boolean), "rw")))
         ELSE ("offset_compensated" :> DCmd(command(m(<<"OCOM">>), m(<<"OCOM">>),
                                                    Single(Boolean), "rw")))
           @@ ("mode" :> DCmd(command(m(<<"MODE">>), m(<<"MODE">>),
                                      Single(Mapping(ResistanceModes)), "rw"))))

\* b2900.Sense.__init__
B2900_Sense(n) ==
    LET c == n.c
        m(path) == H(TRUE, "SENS", c, path)
        rw(path, type) == DCmd(command(m(path), m(path), type, "rw"))
        sub(a, f, ulim) == DDrv(Node("SubSense", c, Append(n.at, a), <<f>>, ulim))
    IN  ("remote_sense" :> rw(<<"REM">>, Single(Boolean)))
     @@ ("four_wire" :> DRef(n, "remote_sense"))
     @@ ("wait_auto" :> rw(<<"WAIT", "AUTO">>, Single(Boolean)))
     @@ ("wait_gain" :> rw(<<"WAIT", "GAIN">>, Single(Float(IntV(0), IntV(100)))))
     @@ ("wait_offset" :> rw(<<"WAIT", "OFFS">>, Single(Float(IntV(0), IntV(1)))))
     @@ ("wait_state" :> rw(<<"WAIT">>, Single(Boolean)))
     @@ ("voltage" :> sub("voltage", "VOLT", IntV(V_MAX)))
     @@ ("current" :> sub("current", "CURR", IntV(I_MAX)))
     @@ ("resistance" :> sub("resistance", "RES", IntV(R_MAX)))

\* b2900.SourceSweep.__init__
B2900_SourceSweep(n) ==
    LET m(x) == H(TRUE, "SOUR", n.c, <<"SWE", x>>)
        rw(x, type) == DCmd(command(m(x), m(x), type, "rw"))
    IN  ("direction" :> rw("DIR", Single(Mapping(SweepDirections))))
     @@ ("points" :> DCmd(command(NoHdr, m("POIN"), Single(Integer(IntV(1), IntV(2500))), "rw")))
     @@ ("ranging" :> rw("RANG", Single(Mapping(SweepRangings))))
     @@ ("spacing" :> rw("SPAC", Single(Mapping(SweepSpacings))))
     @@ ("mode" :> rw("STA", Single(Mapping(SweepModes))))

\* b2900.SubSource.__init__
B2900_SubSource(n) ==
    LET c == n.c
        f == n.arg[1]
        ulim == n.ulim
        sym == Single(Float(Neg(ulim), ulim))
        rw(path, type) == DCmd(command(H(TRUE, "SOUR", c, <<f>> \o path),
                                       H(TRUE, "SOUR", c, <<f>> \o path), type, "rw"))
    IN  ("center" :> rw(<<"CENT">>, sym))
     @@ ("span" :> rw(<<"SPAN">>, sym))
     @@ ("level" :> rw(<<"LEV">>, sym))
     @@ ("level_triggered" :> rw(<<"TRIG">>, sym))
     @@ ("mode" :> rw(<<"MODE">>, Single(Mapping(SourceModes))))
     @@ ("range" :> rw(<<"RANG">>, Single(Float(IntV(0), ulim))))
     @@ ("auto_range" :> rw(<<"RANG", "AUTO">>, Single(Boolean)))
     @@ ("auto_range_limit" :> rw(<<"RANG", "AUTO", "LLIM">>, sym))
     @@ ("points" :> rw(<<"POIN">>, Single(Integer(IntV(1), IntV(2500)))))
     @@ ("sweep_points" :> DRef(n, "points"))
     @@ ("step" :> rw(<<"STEP">>, Single(Float(IntV(0), NoneV))))
     @@ ("sweep_step" :> DRef(n, "step"))
     @@ ("start" :> rw(<<"STAR">>, sym))
     @@ ("sweep_start" :> DRef(n, "start"))
     @@ ("stop" :> rw(<<"STOP">>, sym))
     @@ ("sweep_stop" :> DRef(n, "stop"))
     @@ ("list" :> DCmd(command(H(TRUE, "SOUR", c, <<"LIST", f>>),
                                H(TRUE, "SOUR", c, <<"LIST", f>>),
                                Stream(Float(Neg(ulim), ulim)), "rw")))

\* b2900.Source.__init__
B2900_Source(n) ==
    LET c == n.c
        rw(path, type) == DCmd(command(H(TRUE, "SOUR", c, path), H(TRUE, "SOUR", c, path),
                                       type, "rw"))
        sweep == Node("SourceSweep", c, Append(n.at, "sweep"), <<>>, NoneV)
    IN  ("mode" :> rw(<<"FUNC", "MODE">>, Single(Mapping(B2900_source_functions))))
     @@ ("function_mode" :> DRef(n, "mode"))
     @@ ("function_shape" :> rw(<<"FUNC", "SHAPE">>, Single(Mapping(FunctionShapes))))
     @@ ("continuous_triggering" :> rw(<<"FUNC", "TRIG", "CONT">>, Single(Boolean)))
     @@ ("sweep" :> DDrv(sweep))
     @@ ("sweep_direction" :> DRef(sweep, "direction"))
     @@ ("sweep_mode" :> DRef(sweep, "mode"))
     @@ ("sweep_points" :> DRef(sweep, "points"))
     @@ ("sweep_ranging" :> DRef(sweep, "ranging"))
     @@ ("sweep_range" :> DRef(sweep, "ranging"))
     @@ ("sweep_spacing" :> DRef(sweep, "spacing"))
     @@ ("sweep_space" :> DRef(sweep, "spacing"))
     @@ ("wait_auto" :> rw(<<"WAIT", "AUTO">>, Single(Boolean)))
     @@ ("wait_gain" :> rw(<<"WAIT", "GAIN">>, Single(Float(IntV(0), IntV(100)))))
     @@ ("wait_offset" :> rw(<<"WAIT", "OFFS">>, Single(Float(IntV(0), IntV(1)))))
     @@ ("wait_state" :> rw(<<"WAIT">>, Single(Boolean)))
     @@ ("current" :> DDrv(Node("SubSource", c, Append(n.at, "current"), <<"CURR">>, IntV(I_MAX))))
     @@ ("voltage" :> DDrv(Node("SubSource", c, Append(n.at, "voltage"), <<"VOLT">>, IntV(V_MAX))))

\* b2900.Format.__init__
B2900_Format(n) ==
    ("elements" :> DCmd(Command(H(TRUE, "FORM", 0, <<"ELEM", "SENS">>),
                                H(TRUE, "FORM", 0, <<"ELEM", "SENS">>),
                                Stream(Mapping(B2900_elements)))))
 @@ ("sense_elements" :> DRef(n, "elements"))

\* b2900.Output.__init__
B2900_Output(n) ==
    LET c == n.c
        rw(path, type) == DCmd(command(H(TRUE, "OUTP", c, path), H(TRUE, "OUTP", c, path),
                                       type, "rw"))
    IN  ("filter_auto" :> rw(<<"FILT", "AUTO">>, Single(Boolean)))
     @@ ("filter_cutoff_frequency" :> rw(<<"FILT", "FREQ">>,
                                         Single(Float(Num(31, 830000), IntV(31831)))))
     @@ ("filter_status" :> rw(<<"FILT">>, Single(Boolean)))
     @@ ("filter_time_constant" :> rw(<<"FILT", "TCON">>, Single(Float(NoneV, NoneV))))
     @@ ("high_capacitance_mode" :> rw(<<"HCAP">>, Single(Boolean)))
     @@ ("low_state" :> rw(<<"LOW">>, Single(Mapping(LowStates))))
     @@ ("auto_off" :> rw(<<"OFF", "AUTO">>, Single(Boolean)))
     @@ ("auto_on" :> rw(<<"ON", "AUTO">>, Single(Boolean)))
     @@ ("state" :> DCmd(command(H(TRUE, "OUTP", c, <<>>), H(FALSE, "OUTP", c, <<>>),
                                 Single(Boolean), "rw")))
     @@ ("off_mode" :> rw(<<"OFF", "MODE">>, Single(Mapping(B2900_off_modes))))

\* b2900.Trace.__init__
B2900_Trace(n) ==
    LET c == n.c
    IN  ("free" :> DCmd(command(H(TRUE, "TRAC", c, <<"FREE">>), H(TRUE, "TRAC", c, <<"FREE">>),
                                Fields(<<Integer(NoneV, NoneV), Integer(NoneV, NoneV)>>), "rw")))
     @@ ("points" :> DCmd(command(H(TRUE, "TRAC", c, <<"POIN">>), H(FALSE, "TRAC", c, <<"POIN">>),
                                  Single(Integer(IntV(1), IntV(100000))), "rw")))
     @@ ("actual_points" :> DCmd(command(H(TRUE, "TRAC", c, <<"POIN", "ACT">>), NoHdr,
                                         Single(Integer(NoneV, NoneV)), "rw")))

(***************************************************************************)
(* The device objects.                                                     *)
(***************************************************************************)
Root(dev) == Node(dev, 0, <<>>, <<>>, NoneV)

\* k2400.K2400.__init__ ; ch == (1,)
K2400_Device(n) ==
    LET ch == <<1>>
        tup(cls, at, arg) == [i \in 1..Len(ch) |-> Node(cls, ch[i], <<at>>, arg, NoneV)]
    IN  ("sources" :> DTuple(tup("Source", "sources", <<>>)))
     @@ ("senses" :> DTuple(tup("Sense", "senses", <<>>)))
     @@ ("triggerings" :> DTuple(tup("Triggering", "triggerings", <<"TRIG">>)))
     @@ ("arms" :> DTuple(tup("Triggering", "arms", <<"ARM">>)))
     @@ ("outputs" :> DTuple(tup("Output", "outputs", <<>>)))
     @@ ("traces" :> DTuple(tup("Trace", "traces", <<>>)))
     @@ ("source" :> DDrv(tup("Source", "sources", <<>>)[1]))
     @@ ("sense" :> DDrv(tup("Sense", "senses", <<>>)[1]))
     @@ ("arm" :> DDrv(tup("Triggering", "arms", <<"ARM">>)[1]))
     @@ ("triggering" :> DDrv(tup("Triggering", "triggerings", <<"TRIG">>)[1]))
     @@ ("output" :> DDrv(tup("Output", "outputs", <<>>)[1]))
     @@ ("trace" :> DDrv(tup("Trace", "traces", <<>>)[1]))
     @@ ("format" :> DDrv(Node("Format", 0, <<"format">>, <<>>, NoneV)))
     @@ ("setup" :> DObj)
     @@ ("sense_elements" :> DCmd(Command(H(TRUE, "FORM", 0, <<"ELEM", "SENS">>),
                                          H(TRUE, "FORM", 0, <<"ELEM", "SENS">>),
                                          Stream(Mapping(K2400_format_elements)))))

\* b2900.B2900.__init__ ; ch == (1, 2) if self.is_dual else (1,)
B2900_Device(n, is_dual) ==
    LET ch == IF is_dual THEN <<1, 2>> ELSE <<1>>
        tup(cls, at, arg) == [i \in 1..Len(ch) |-> Node(cls, ch[i], <<at>>, arg, NoneV)]
    IN  ("sources" :> DTuple(tup("Source", "sources", <<>>)))
     @@ ("senses" :> DTuple(tup("Sense", "senses", <<>>)))
     @@ ("triggerings" :> DTuple(tup("Triggering", "triggerings", <<"TRIG", "ALL">>)))
     @@ ("arms" :> DTuple(tup("Triggering", "arms", <<"ARM", "ALL">>)))
     @@ ("outputs" :> DTuple(tup("Output", "outputs", <<>>)))
     @@ ("traces" :> DTuple(tup("Trace", "traces", <<>>)))
     @@ ("source" :> DDrv(tup("Source", "sources", <<>>)[1]))
     @@ ("sense" :> DDrv(tup("Sense", "senses", <<>>)[1]))
     @@ ("arm" :> DDrv(tup("Triggering", "arms", <<"ARM", "ALL">>)[1]))
     @@ ("triggering" :> DDrv(tup("Triggering", "triggerings", <<"TRIG", "ALL">>)[1]))
     @@ ("output" :> DDrv(tup("Output", "outputs", <<>>)[1]))
     @@ ("trace" :> DDrv(tup("Trace", "traces", <<>>)[1]))
     @@ ("format" :> DDrv(Node("Format", 0, <<"format">>, <<>>, NoneV)))
     @@ ("setup" :> DObj)
     @@ ("sense_elements" :> DCmd(Command(H(TRUE, "FORM", 0, <<"ELEM", "SENS">>),
                                          H(TRUE, "FORM", 0, <<"ELEM", "SENS">>),
                                          Stream(Mapping(B2900_elements)))))

\* variant: the count is queried under the header of the sample count
K2000_Trigger_countFromSamples(n) ==
    LET rw(root, tail, type) == DCmd(Command(H(TRUE, root, 0, <<tail>>), H(TRUE, root, 0, <<tail>>),
                                             Single(type)))
    IN  ("continuous_initiation" :> rw("INIT", "CONT", Boolean))
     @@ ("count" :> DCmd(Command(H(TRUE, "SAMP", 0, <<"COUN">>), H(TRUE, "TRIG", 0, <<"COUN">>),
                                 Single(Integer(NoneV, NoneV)))))
     @@ ("delay" :> rw("TRIG", "DEL", Float(IntV(0), IntV(999999))))
     @@ ("source" :> rw("TRIG", "SOUR", Mapping(K2000_mappings[2])))
     @@ ("timer" :> rw("TRIG", "TIM", Float(Num(0, 1000), Num(999999, 999000))))
     @@ ("sample_count" :> rw("SAMP", "COUN", Integer(IntV(1), IntV(1024))))

\* k2000.Trigger.__init__
K2000_Trigger(n) ==
    LET rw(root, tail, type) == DCmd(Command(H(TRUE, root, 0, <<tail>>), H(TRUE, root, 0, <<tail>>),
                                             Single(type)))
    IN  ("continuous_initiation" :> rw("INIT", "CONT", Boolean))
     @@ ("count" :> rw("TRIG", "COUN", Integer(NoneV, NoneV)))
     @@ ("delay" :> rw("TRIG", "DEL", Float(IntV(0), IntV(999999))))
     @@ ("source" :> rw("TRIG", "SOUR", Mapping(K2000_mappings[2])))
     @@ ("timer" :> rw("TRIG", "TIM", Float(Num(0, 1000), Num(999999, 999000))))
     @@ ("sample_count" :> rw("SAMP", "COUN", Integer(IntV(1), IntV(1024))))

\* k2000.K2000.__init__ : the trigger layer; n.arg names the object
K2000_Device(n) ==
    ("triggering" :> DDrv(Node("Trigger", 0, <<"triggering">>, n.arg, NoneV)))
 @@ ("sense" :> DObj)
 @@ ("trace" :> DObj)

\* the attributes the constructor of node n declares, on device dev
K6487_trigger_sources == << <<"immediate", "IMM">>, <<"tlink", "TLIN">> >>

K6487_Trigger(n) ==
    LET rw(root, tail, type) == DCmd(Command(H(TRUE, root, 0, tail), H(TRUE, root, 0, tail),
                                             Single(type)))
    IN  ("continuous_initiation" :> rw("INIT", <<"CONT">>, Boolean))
     @@ ("continuous_mode" :> DRef(n, "continuous_initiation"))
     @@ ("continuous" :> DRef(n, "continuous_initiation"))
     @@ ("count" :> rw("TRIG", <<"COUN">>, Integer(NoneV, NoneV)))
     @@ ("delay" :> rw("TRIG", <<"DEL">>, Float(IntV(0), IntV(999999))))
     @@ ("autodelay" :> rw("TRIG", <<"DEL", "AUTO">>, Boolean))
     @@ ("source" :> rw("TRIG", <<"SOUR">>, Mapping(K6487_trigger_sources)))

K6487_Triggering(n) ==
    ("arm" :> DObj)
 @@ ("trigger" :> DDrv(Node("Trigger", 0, Append(n.at, "trigger"), n.arg, NoneV)))

K6487_Device(n) ==
    ("triggering" :> DDrv(Node("Triggering", 0, <<"triggering">>, n.arg, NoneV)))
 @@ ("display" :> DObj)
 @@ ("sense" :> DObj)
 @@ ("trace" :> DObj)
 @@ ("system" :> DObj)
 @@ ("format" :> DObj)

Decl(dev, is_dual, n) ==
    IF dev = "K2400"
    THEN CASE n.cls = "K2400" -> K2400_Device(n)
           [] n.cls = "Triggering" -> K2400_Triggering(n)
           [] n.cls = "Sense" -> K2400_Sense(n)
           [] n.cls = "SubSense" -> K2400_SubSense(n)
           [] n.cls = "Source" -> K2400_Source(n)
           [] n.cls = "SourceSweep" -> K2400_SourceSweep(n)
           [] n.cls = "SourceList" -> K2400_SourceList(n)
           [] n.cls = "SourceListSequence" -> K2400_SourceListSequence(n)
           [] n.cls = "SubSource" -> K2400_SubSource(n)
           [] n.cls = "Format" -> K2400_Format(n)
           [] n.cls = "Output" -> K2400_Output(n)
           [] n.cls = "Trace" -> K2400_Trace(n)
    ELSE IF dev = "K2000"
    THEN CASE n.cls = "K2000" -> K2000_Device(n)
           [] n.cls = "Trigger" -> K2000_Trigger(n)
    ELSE IF dev = "K6487"
    THEN CASE n.cls = "K6487" -> K6487_Device(n)
           [] n.cls = "Triggering" -> K6487_Triggering(n)
           [] n.cls = "Trigger" -> K6487_Trigger(n)
    ELSE CASE n.cls = "B2900" -> B2900_Device(n, is_dual)
           [] n.cls = "Triggering" -> B2900_Triggering(n)
           [] n.cls = "Sense" -> B2900_Sense(n)
           [] n.cls = "SubSense" -> B2900_SubSense(n)
           [] n.cls = "Source" -> B2900_Source(n)
           [] n.cls = "SourceSweep" -> B2900_SourceSweep(n)
           [] n.cls = "SubSource" -> B2900_SubSource(n)
           [] n.cls = "Format" -> B2900_Format(n)
           [] n.cls = "Output" -> B2900_Output(n)
           [] n.cls = "Trace" -> B2900_Trace(n)

(***************************************************************************)
(* State.                                                                  *)
(***************************************************************************)
VARIABLES
    dev,        \* the driver class of the device object: "K2400" or "B2900"
    transport,  \* "simulated" (SimulatedTransport) or "physical"
    is_dual,    \* B2900.is_dual
    bind,       \* attributes rebound after construction: <<node, attr>> -> value
    sim,        \* simulated transport: the buffer of each Command object
    inst,       \* physical transport: the instrument setting under each header
    written,    \* history: the value last written through each Command
    last,       \* history: the last operation, its arguments and its outcome
    nops,       \* number of operations performed
    phase       \* "run", or "done" once a closing operation has been performed

vars == <<dev, transport, is_dual, bind, sim, inst, written, last, nops, phase>>

Empty == [x \in {} |-> NoneV]

Put(f, k, v) == [x \in DOMAIN f \cup {k} |-> IF x = k THEN v ELSE f[x]]

PutAll(f, K, v) == [x \in DOMAIN f \cup K |-> IF x \in K THEN v ELSE f[x]]

DeclOf(n) == Decl(dev, is_dual, n)

\* the Command object behind attribute a of node n, d being the attributes
\* of n: its identity (the attribute it was first bound to) and its value
Target(n, a, d) ==
    IF d[a].kind = "ref"
    THEN [id |-> <<d[a].node, d[a].attr>>,
          cmd |-> (IF d[a].node = n THEN d ELSE DeclOf(d[a].node))[d[a].attr].cmd]
    ELSE [id |-> <<n, a>>, cmd |-> d[a].cmd]

(***************************************************************************)
(* The transports.  The simulated transport keeps one buffer per Command   *)
(* object.  The physical instrument keeps one setting per program header;  *)
(* a header addresses the same setting with or without its leading colon,  *)
(* with the short or the long form of a mnemonic, and with suffix 1 or no  *)
(* suffix; a header of trigger action ALL addresses the settings of both   *)
(* the TRANsient and the ACQuire action.                                   *)
(***************************************************************************)
Short(mnemonic) == IF mnemonic = "RANGE" THEN "RANG" ELSE mnemonic

Canon(h) ==
    [lead |-> TRUE, root |-> h.root, c |-> IF h.c = 0 THEN 1 ELSE h.c,
     path |-> [i \in DOMAIN h.path |-> Short(h.path[i])]]

Targets(h) ==
    LET k == Canon(h)
    IN  IF Len(k.path) >= 1 /\ k.path[1] = "ALL"
        THEN {[k EXCEPT !.path[1] = "TRAN"], [k EXCEPT !.path[1] = "ACQ"]}
        ELSE {k}

DefaultTok(type) ==
    CASE type.k = "Boolean" -> Tok("0")
      [] type.k \in {"Integer", "Float"} ->
            IF ~IsNone(type.lo) THEN NumTok(type.lo)
            ELSE IF ~IsNone(type.hi) THEN NumTok(type.hi)
            ELSE NumTok(IntV(0))
      [] type.k = "Mapping" -> Tok(type.table[1][2])
      [] type.k = "String" -> Tok("")

\* the response to a query nothing has been written for
Simulate(ctype) == [i \in 1..Len(ctype.types) |-> DefaultTok(ctype.types[i])]

Message(dir, hdr, data) == [dir |-> dir, hdr |-> hdr, data |-> data]

World == [bind |-> bind, sim |-> sim, inst |-> inst, written |-> written]

\* the tokens a query of Command t is answered with
Response(W, t) ==
    IF transport = "simulated"
    THEN IF t.id \in DOMAIN W.sim THEN W.sim[t.id] ELSE Simulate(t.cmd.type)
    ELSE IF Canon(t.cmd.q) \in DOMAIN W.inst THEN W.inst[Canon(t.cmd.q)]
    ELSE Simulate(t.cmd.type)

(***************************************************************************)
(* Command.write / Command.query (slave.driver)                            *)
(***************************************************************************)
CommandWrite(W, t, data) ==
    LET d == Dump(t.cmd.type, data)
    IN  IF t.cmd.w = NoHdr THEN [W |-> W, res |-> "NotWritableError", sent |-> <<>>]
        ELSE IF ~d.ok THEN [W |-> W, res |-> d.err, sent |-> <<>>]
        ELSE [W |-> IF transport = "simulated"
                    THEN [W EXCEPT !.sim = Put(@, t.id, d.val)]
                    ELSE [W EXCEPT !.inst = PutAll(@, Targets(t.cmd.w), d.val)],
              res |-> "ok",
              sent |-> <<Message("write", t.cmd.w, d.val)>>]

CommandQuery(W, t) ==
    LET toks == Response(W, t)
        r == Load(t.cmd.type, toks)
    IN  IF t.cmd.q = NoHdr
        THEN [W |-> W, res |-> "NotReadableError", val |-> NoneV, sent |-> <<>>]
        ELSE IF ~r.ok
        THEN [W |-> W, res |-> r.err, val |-> NoneV,
              sent |-> <<Message("query", t.cmd.q, <<>>)>>]
        ELSE [W |-> IF transport = "simulated" THEN [W EXCEPT !.sim = Put(@, t.id, toks)] ELSE W,
              res |-> "ok",
              val |-> IF Len(r.val) = 1 THEN r.val[1] ELSE List(r.val),
              sent |-> <<Message("query", t.cmd.q, <<>>)>>]

(***************************************************************************)
(* Driver.__getattribute__ / Driver.__setattr__ (slave.driver)             *)
(***************************************************************************)
IsCommand(W, n, a, d) ==
    /\ <<n, a>> \notin DOMAIN W.bind
    /\ a \in DOMAIN d
    /\ d[a].kind \in {"cmd", "ref"}

\* d: the attributes the constructor of n declared
GetAttrOf(W, n, a, d) ==
    IF <<n, a>> \in DOMAIN W.bind
    THEN [W |-> W, res |-> "ok", val |-> W.bind[<<n, a>>], sent |-> <<>>]
    ELSE IF a \notin DOMAIN d
    THEN [W |-> W, res |-> "AttributeError", val |-> NoneV, sent |-> <<>>]
    ELSE IF d[a].kind \in {"cmd", "ref"}
    THEN CommandQuery(W, Target(n, a, d))
    ELSE [W |-> W, res |-> "ok", val |-> NoneV, sent |-> <<>>]

GetAttr(W, n, a) == GetAttrOf(W, n, a, DeclOf(n))

\* object.__setattr__
Rebind(W, n, a, value) ==
    [W |-> [W EXCEPT !.bind = Put(@, <<n, a>>, value)], res |-> "ok", sent |-> <<>>]

\* the history of the values written through each Command
Written(r, t, value) ==
    IF r.res = "ok" THEN [r EXCEPT !.W.written = Put(@, t.id, value)] ELSE r

WriteTo(W, t, value) ==
    Written(CommandWrite(W, t, IF value.t = "seq" THEN value.items ELSE <<value>>), t, value)

SetAttrOf(W, n, a, value, d) ==
    IF IsCommand(W, n, a, d) THEN WriteTo(W, Target(n, a, d), value)
    ELSE Rebind(W, n, a, value)

\* variant: the assignment replaces the attribute whatever it holds
SetAttr_rebinds(W, n, a, value) == Rebind(W, n, a, value)

SetAttr(W, n, a, value) == SetAttrOf(W, n, a, value, DeclOf(n))

(***************************************************************************)
(* Attribute access paths from the device object:  smu.senses[0].voltage   *)
(* is <<Item("senses", 0), Attr("voltage")>>.                              *)
(***************************************************************************)
Attr(name) == [a |-> name, sub |-> FALSE, i |-> 0]

Item(name, i) == [a |-> name, sub |-> TRUE, i |-> i]

\* tuple[i] for a tuple of length n: the 1-based position, 0 for IndexError
TupleIndex(n, i) ==
    IF 0 <= i /\ i < n THEN i + 1
    ELSE IF 0 - n <= i /\ i < 0 THEN n + i + 1
    ELSE 0

Found(n) == [res |-> "ok", node |-> n]

NotFound(e) == [res |-> e, node |-> NoNode]

RECURSIVE WalkFrom(_, _, _, _)
\* one step of the path: attribute p of node n, d being the attributes of n
WalkStep(W, n, path, j, d) ==
    LET p == path[j]
    IN  IF <<n, p.a>> \in DOMAIN W.bind THEN NotFound("AttributeError")
        ELSE IF p.a \notin DOMAIN d THEN NotFound("AttributeError")
        ELSE IF d[p.a].kind = "drv" /\ ~p.sub THEN WalkFrom(W, d[p.a].node, path, j + 1)
        ELSE IF d[p.a].kind = "tuple" /\ p.sub
        THEN IF TupleIndex(Len(d[p.a].nodes), p.i) = 0 THEN NotFound("IndexError")
             ELSE WalkFrom(W, d[p.a].nodes[TupleIndex(Len(d[p.a].nodes), p.i)], path, j + 1)
        ELSE NotFound("TypeError")

WalkFrom(W, n, path, j) ==
    IF j > Len(path) THEN Found(n) ELSE WalkStep(W, n, path, j, DeclOf(n))

\* the Driver object the path leads to
Walk(W, path) == WalkFrom(W, Root(dev), path, 1)

(***************************************************************************)
(* Statements of a Setup method: evaluate a path, assign an attribute of   *)
(* the object a path leads to, raise.                                      *)
(***************************************************************************)
Get(path) == [k |-> "get", path |-> path, a |-> "", v |-> NoneV, e |-> ""]

Set(path, a, v) == [k |-> "set", path |-> path, a |-> a, v |-> v, e |-> ""]

Raise(e) == [k |-> "raise", path |-> <<>>, a |-> "", v |-> NoneV, e |-> e]

\* value = <path>.src if value is None else value; <path>.attr = (value, -value)
SetPair(path, a, v, src) == [k |-> "pair", path |-> path, a |-> a, v |-> v, e |-> "", src |-> src]

\* <node>.src if value is None else value
ValueOr(W, n, st) ==
    IF IsNone(st.v) THEN GetAttr(W, n, st.src)
    ELSE [W |-> W, res |-> "ok", val |-> st.v, sent |-> <<>>]

\* (value, -value)
Inverted(value) ==
    IF value.t = "num" THEN Ok(List(<<value, Neg(value)>>)) ELSE Err("TypeError")

RECURSIVE ExecFrom(_, _, _, _)
\* variant: a statement that fails is skipped
ExecThen_skipping(prog, i, sent, r) ==
    IF r.res = "ok" THEN ExecFrom(prog, i + 1, r.W, sent \o r.sent)
    ELSE ExecFrom(prog, i + 1, r.W, sent \o r.sent)

\* the outcome r of the i-th statement: the first error ends the run
ExecThen(prog, i, sent, r) ==
    IF r.res = "ok" THEN ExecFrom(prog, i + 1, r.W, sent \o r.sent)
    ELSE [W |-> r.W, res |-> r.res, sent |-> sent \o r.sent]

\* the pair statement, g being the outcome of reading its value
ExecPair(prog, i, sent, n, g) ==
    IF g.res # "ok" THEN [W |-> g.W, res |-> g.res, sent |-> sent \o g.sent]
    ELSE IF ~Inverted(g.val).ok
    THEN [W |-> g.W, res |-> Inverted(g.val).err, sent |-> sent \o g.sent]
    ELSE ExecThen(prog, i, sent \o g.sent, SetAttr(g.W, n, prog[i].a, Inverted(g.val).val))

\* the i-th statement, its path leading to t
ExecAt(prog, i, W, sent, t) ==
    IF t.res # "ok" THEN [W |-> W, res |-> t.res, sent |-> sent]
    ELSE IF prog[i].k = "get" THEN ExecFrom(prog, i + 1, W, sent)
    ELSE IF prog[i].k = "pair" THEN ExecPair(prog, i, sent, t.node, ValueOr(W, t.node, prog[i]))
    ELSE ExecThen(prog, i, sent, SetAttr(W, t.node, prog[i].a, prog[i].v))

ExecFrom(prog, i, W, sent) ==
    IF i > Len(prog) THEN [W |-> W, res |-> "ok", sent |-> sent]
    ELSE IF prog[i].k = "raise" THEN [W |-> W, res |-> prog[i].e, sent |-> sent]
    ELSE ExecAt(prog, i, W, sent, Walk(W, prog[i].path))

Exec(prog, W) == ExecFrom(prog, 1, W, <<>>)

\* function.lower().startswith(prefix), for the function names of the model
startswith(function, prefix) ==
    \/ prefix = "volt" /\ function \in {"volt", "voltage", "Voltage", "VOLT"}
    \/ prefix = "curr" /\ function \in {"curr", "current", "Current", "CURR"}

When(cond, stmts) == IF cond THEN stmts ELSE <<>>

(***************************************************************************)
(* k2400.Setup                                                             *)
(***************************************************************************)
\* variant: a count that is not given is reset to 1
K2400_triggering_resets(count, delay, channel) ==
    LET trig == <<Item("triggerings", channel - 1)>>
    IN  <<Get(trig)>>
     \o <<Set(trig, "count", IF IsNone(count) THEN IntV(1) ELSE count)>>
     \o When(~IsNone(delay), <<Set(trig, "delay", delay)>>)

K2400_triggering(count, delay, channel) ==
    LET trig == <<Item("triggerings", channel - 1)>>
    IN  <<Get(trig)>>
     \o When(~IsNone(count), <<Set(trig, "count", count)>>)
     \o When(~IsNone(delay), <<Set(trig, "delay", delay)>>)

K2400_fixed_source(function, value, channel) ==
    LET source == <<Item("sources", channel - 1)>>
        sub == Append(source, Attr(IF startswith(function, "volt") THEN "voltage" ELSE "current"))
    IN  <<Get(source)>>
     \o (IF ~startswith(function, "volt") /\ ~startswith(function, "curr")
         THEN <<Raise("ValueError")>>
         ELSE K2400_triggering(IntV(1), NoneV, channel)
           \o <<Set(source, "function_mode", Str(function)),
                Set(sub, "mode", Str("fixed"))>>
           \o When(~IsNone(value),
                   <<Set(sub, "level", value), Set(sub, "level_triggered", value)>>))

\* variant: the sweep start and stop are exchanged
K2400_sweep_source_swapped(function, start, stop, points, channel) ==
    LET source == <<Item("sources", channel - 1)>>
        sub == Append(source, Attr(IF startswith(function, "volt") THEN "voltage" ELSE "current"))
    IN  <<Get(source)>>
     \o (IF ~startswith(function, "volt") /\ ~startswith(function, "curr")
         THEN <<Raise("ValueError")>>
         ELSE K2400_triggering(points, NoneV, channel)
           \o <<Set(source, "function_mode", Str(function)),
                Set(sub, "mode", Str("sweep")),
                Set(sub, "sweep_start", stop),
                Set(sub, "sweep_stop", start),
                Set(sub, "sweep_points", points)>>)

K2400_sweep_source(function, start, stop, points, channel) ==
    LET source == <<Item("sources", channel - 1)>>
        sub == Append(source, Attr(IF startswith(function, "volt") THEN "voltage" ELSE "current"))
    IN  <<Get(source)>>
     \o (IF ~startswith(function, "volt") /\ ~startswith(function, "curr")
         THEN <<Raise("ValueError")>>
         ELSE K2400_triggering(points, NoneV, channel)
           \o <<Set(source, "function_mode", Str(function)),
                Set(sub, "mode", Str("sweep")),
                Set(sub, "sweep_start", start),
                Set(sub, "sweep_stop", stop),
                Set(sub, "sweep_points", points)>>)

\* variant: the range is written before auto_range
K2400_sense_rangeFirst(function, auto_range, range_, nplc, compliance, four_wire, integration_time, channel) ==
    LET sense == <<Item("senses", channel - 1)>>
        sub == Append(sense, Attr(IF startswith(function, "volt") THEN "voltage" ELSE "current"))
    IN  IF Truthy(auto_range) /\ ~IsNone(range_) THEN <<Raise("ValueError")>>
        ELSE IF ~IsNone(nplc) /\ ~IsNone(integration_time) THEN <<Raise("ValueError")>>
        ELSE <<Get(sense)>>
          \o (IF ~startswith(function, "volt") /\ ~startswith(function, "curr")
              THEN <<Raise("ValueError")>>
              ELSE When(~IsNone(four_wire), <<Set(sense, "four_wire", four_wire)>>)
                \o When(~IsNone(range_), <<Set(sub, "range", range_)>>)
                \o When(~IsNone(auto_range), <<Set(sub, "auto_range", auto_range)>>)
                \o When(~IsNone(nplc), <<Set(sub, "nplc", nplc)>>)
                \o When(~IsNone(integration_time),
                        <<Set(sub, "nplc", Times50(integration_time))>>)
                \o When(~IsNone(compliance), <<Set(sub, "compliance", compliance)>>))

\* variant: the mutually exclusive arguments are not checked
K2400_sense_unchecked(function, auto_range, range_, nplc, compliance, four_wire, integration_time, channel) ==
    LET sense == <<Item("senses", channel - 1)>>
        sub == Append(sense, Attr(IF startswith(function, "volt") THEN "voltage" ELSE "current"))
    IN  <<Get(sense)>>
     \o When(~IsNone(four_wire), <<Set(sense, "four_wire", four_wire)>>)
     \o When(~IsNone(auto_range), <<Set(sub, "auto_range", auto_range)>>)
     \o When(~IsNone(range_), <<Set(sub, "range", range_)>>)
     \o When(~IsNone(nplc), <<Set(sub, "nplc", nplc)>>)
     \o When(~IsNone(integration_time), <<Set(sub, "nplc", Times50(integration_time))>>)
     \o When(~IsNone(compliance), <<Set(sub, "compliance", compliance)>>)

K2400_sense(function, auto_range, range_, nplc, compliance, four_wire, integration_time, channel) ==
    LET sense == <<Item("senses", channel - 1)>>
        sub == Append(sense, Attr(IF startswith(function, "volt") THEN "voltage" ELSE "current"))
    IN  IF Truthy(auto_range) /\ ~IsNone(range_) THEN <<Raise("ValueError")>>
        ELSE IF ~IsNone(nplc) /\ ~IsNone(integration_time) THEN <<Raise("ValueError")>>
        ELSE <<Get(sense)>>
          \o (IF ~startswith(function, "volt") /\ ~startswith(function, "curr")
              THEN <<Raise("ValueError")>>
              ELSE When(~IsNone(four_wire), <<Set(sense, "four_wire", four_wire)>>)
                \o When(~IsNone(auto_range), <<Set(sub, "auto_range", auto_range)>>)
                \o When(~IsNone(range_), <<Set(sub, "range", range_)>>)
                \o When(~IsNone(nplc), <<Set(sub, "nplc", nplc)>>)
                \o When(~IsNone(integration_time),
                        <<Set(sub, "nplc", Times50(integration_time))>>)
                \o When(~IsNone(compliance), <<Set(sub, "compliance", compliance)>>))

(***************************************************************************)
(* b2900.Setup                                                             *)
(***************************************************************************)
\* variant: the timer is not written
B2900_triggering_noTimer(source, count, timer, delay, channel) ==
    LET trig == <<Item("triggerings", channel - 1)>>
    IN  <<Get(trig)>>
     \o When(~IsNone(source), <<Set(trig, "source", source)>>)
     \o When(~IsNone(count), <<Set(trig, "count", count)>>)
     \o When(~IsNone(delay), <<Set(trig, "delay", delay)>>)

B2900_triggering(source, count, timer, delay, channel) ==
    LET trig == <<Item("triggerings", channel - 1)>>
    IN  <<Get(trig)>>
     \o When(~IsNone(source), <<Set(trig, "source", source)>>)
     \o When(~IsNone(count), <<Set(trig, "count", count)>>)
     \o When(~IsNone(timer), <<Set(trig, "timer", timer)>>)
     \o When(~IsNone(delay), <<Set(trig, "delay", delay)>>)

\* variant: only the immediate level is set
B2900_fixed_source_levelOnly(function, value, channel) ==
    LET source == <<Item("sources", channel - 1)>>
        sub == Append(source, Attr(IF startswith(function, "volt") THEN "voltage" ELSE "current"))
    IN  <<Get(source)>>
     \o (IF ~startswith(function, "volt") /\ ~startswith(function, "curr")
         THEN <<Raise("ValueError")>>
         ELSE B2900_triggering(NoneV, IntV(1), NoneV, NoneV, channel)
           \o <<Set(source, "function_mode", Str(function)),
                Set(source, "function_shape", Str("dc")),
                Set(sub, "mode", Str("fixed"))>>
           \o When(~IsNone(value), <<Set(sub, "level", value)>>))

B2900_fixed_source(function, value, channel) ==
    LET source == <<Item("sources", channel - 1)>>
        sub == Append(source, Attr(IF startswith(function, "volt") THEN "voltage" ELSE "current"))
    IN  <<Get(source)>>
     \o (IF ~startswith(function, "volt") /\ ~startswith(function, "curr")
         THEN <<Raise("ValueError")>>
         ELSE B2900_triggering(NoneV, IntV(1), NoneV, NoneV, channel)
           \o <<Set(source, "function_mode", Str(function)),
                Set(source, "function_shape", Str("dc")),
                Set(sub, "mode", Str("fixed"))>>
           \o When(~IsNone(value),
                   <<Set(sub, "level", value), Set(sub, "level_triggered", value)>>))

\* variant: the sweep is programmed on the source of the first channel
B2900_sweep_source_firstChannel(function, start, stop, points, channel) ==
    LET source == <<Item("sources", channel - 1)>>
        sub == Append(<<Item("sources", 0)>>,
                      Attr(IF startswith(function, "volt") THEN "voltage" ELSE "current"))
    IN  <<Get(source)>>
     \o (IF ~startswith(function, "volt") /\ ~startswith(function, "curr")
         THEN <<Raise("ValueError")>>
         ELSE B2900_triggering(NoneV, points, NoneV, NoneV, channel)
           \o <<Set(source, "function_mode", Str(function)),
                Set(source, "function_shape", Str("dc")),
                Set(sub, "mode", Str("sweep")),
                Set(sub, "sweep_start", start),
                Set(sub, "sweep_stop", stop),
                Set(sub, "points", points)>>)

B2900_sweep_source(function, start, stop, points, channel) ==
    LET source == <<Item("sources", channel - 1)>>
        sub == Append(source, Attr(IF startswith(function, "volt") THEN "voltage" ELSE "current"))
    IN  <<Get(source)>>
     \o (IF ~startswith(function, "volt") /\ ~startswith(function, "curr")
         THEN <<Raise("ValueError")>>
         ELSE B2900_triggering(NoneV, points, NoneV, NoneV, channel)
           \o <<Set(source, "function_mode", Str(function)),
                Set(source, "function_shape", Str("dc")),
                Set(sub, "mode", Str("sweep")),
                Set(sub, "sweep_start", start),
                Set(sub, "sweep_stop", stop),
                Set(sub, "points", points)>>)

\* variant: four_wire is ignored
B2900_sense_twoWire(function, auto_range, range_, nplc, compliance, four_wire, integration_time, channel) ==
    LET sense == <<Item("senses", channel - 1)>>
        sub == Append(sense, Attr(IF startswith(function, "volt") THEN "voltage" ELSE "current"))
    IN  <<Get(sense)>>
     \o (IF Truthy(auto_range) /\ ~IsNone(range_) THEN <<Raise("ValueError")>>
         ELSE IF ~IsNone(nplc) /\ ~IsNone(integration_time) THEN <<Raise("ValueError")>>
         ELSE IF ~startswith(function, "volt") /\ ~startswith(function, "curr")
         THEN <<Raise("ValueError")>>
         ELSE When(~IsNone(auto_range), <<Set(sub, "auto_range", auto_range)>>)
           \o When(~IsNone(range_), <<Set(sub, "range", range_)>>)
           \o When(~IsNone(nplc), <<Set(sub, "nplc", nplc)>>)
           \o When(~IsNone(integration_time), <<Set(sub, "aperture", integration_time)>>)
           \o When(~IsNone(compliance), <<Set(sub, "compliance", compliance)>>))

B2900_sense(function, auto_range, range_, nplc, compliance, four_wire, integration_time, channel) ==
    LET sense == <<Item("senses", channel - 1)>>
        sub == Append(sense, Attr(IF startswith(function, "volt") THEN "voltage" ELSE "current"))
    IN  <<Get(sense)>>
     \o (IF Truthy(auto_range) /\ ~IsNone(range_) THEN <<Raise("ValueError")>>
         ELSE IF ~IsNone(nplc) /\ ~IsNone(integration_time) THEN <<Raise("ValueError")>>
         ELSE IF ~startswith(function, "volt") /\ ~startswith(function, "curr")
         THEN <<Raise("ValueError")>>
         ELSE When(~IsNone(four_wire), <<Set(sense, "four_wire", four_wire)>>)
           \o When(~IsNone(auto_range), <<Set(sub, "auto_range", auto_range)>>)
           \o When(~IsNone(range_), <<Set(sub, "range", range_)>>)
           \o When(~IsNone(nplc), <<Set(sub, "nplc", nplc)>>)
           \o When(~IsNone(integration_time), <<Set(sub, "aperture", integration_time)>>)
           \o When(~IsNone(compliance), <<Set(sub, "compliance", compliance)>>))

K2400_fixed_source_with_compensation(function, value, channel) ==
    LET trig == <<Item("triggerings", channel - 1)>>
        source == <<Item("sources", channel - 1)>>
    IN  <<Get(trig), Get(source),
          Set(source, "function_mode", Str(function)),
          Set(trig, "count", IntV(2))>>
     \o (IF function = "volt"
         THEN <<Set(Append(source, Attr("voltage")), "mode", Str("list")),
                SetPair(Append(source, Attr("voltage")), "list", value, "")>>
         ELSE IF function = "curr"
         THEN <<Set(Append(source, Attr("current")), "mode", Str("list")),
                SetPair(Append(source, Attr("current")), "list", value, "")>>
         ELSE <<>>)

\* variant: a single trigger
B2900_fixed_source_with_compensation_oneShot(function, value, channel) ==
    LET source == <<Item("sources", channel - 1)>>
    IN  <<Get(source), Set(source, "function_mode", Str(function))>>
     \o B2900_triggering(NoneV, IntV(1), NoneV, NoneV, channel)
     \o (IF startswith(function, "volt")
         THEN <<Set(Append(source, Attr("voltage")), "mode", Str("list")),
                SetPair(Append(source, Attr("voltage")), "list", value, "level")>>
         ELSE IF startswith(function, "curr")
         THEN <<Set(Append(source, Attr("current")), "mode", Str("list")),
                SetPair(Append(source, Attr("current")), "list", value, "level")>>
         ELSE <<>>)

B2900_fixed_source_with_compensation(function, value, channel) ==
    LET source == <<Item("sources", channel - 1)>>
    IN  <<Get(source), Set(source, "function_mode", Str(function))>>
     \o B2900_triggering(NoneV, IntV(2), NoneV, NoneV, channel)
     \o (IF startswith(function, "volt")
         THEN <<Set(Append(source, Attr("voltage")), "mode", Str("list")),
                SetPair(Append(source, Attr("voltage")), "list", value, "level")>>
         ELSE IF startswith(function, "curr")
         THEN <<Set(Append(source, Attr("current")), "mode", Str("list")),
                SetPair(Append(source, Attr("current")), "list", value, "level")>>
         ELSE <<>>)

\* setup.<method>(...) of the device object
triggering(a) ==
    IF dev = "K2400" THEN K2400_triggering(a.count, a.delay, a.channel)
    ELSE B2900_triggering(a.source, a.count, a.timer, a.delay, a.channel)

fixed_source(a) ==
    IF dev = "K2400" THEN K2400_fixed_source(a.function, a.value, a.channel)
    ELSE B2900_fixed_source(a.function, a.value, a.channel)

fixed_source_with_compensation(a) ==
    IF dev = "K2400" THEN K2400_fixed_source_with_compensation(a.function, a.value, a.channel)
    ELSE B2900_fixed_source_with_compensation(a.function, a.value, a.channel)

sweep_source(a) ==
    IF dev = "K2400" THEN K2400_sweep_source(a.function, a.start, a.stop, a.points, a.channel)
    ELSE B2900_sweep_source(a.function, a.start, a.stop, a.points, a.channel)

sense(a) ==
    IF dev = "K2400"
    THEN K2400_sense(a.function, a.auto_range, a.range_, a.nplc, a.compliance,
                     a.four_wire, a.integration_time, a.channel)
    ELSE B2900_sense(a.function, a.auto_range, a.range_, a.nplc, a.compliance,
                     a.four_wire, a.integration_time, a.channel)

(***************************************************************************)
(* Operations on the device object.                                        *)
(***************************************************************************)
Init ==
    /\ dev \in {"K2400", "B2900"}
    /\ transport \in {"simulated", "physical"}
    /\ is_dual \in BOOLEAN
    /\ dev = "K2400" => ~is_dual
    /\ (dev = "B2900" /\ transport = "simulated") => is_dual
    /\ bind = Empty
    /\ sim = Empty
    /\ inst = Empty
    /\ written = Empty
    /\ last = [op |-> "init", args |-> <<>>, res |-> "ok", val |-> NoneV, sent |-> <<>>]
    /\ nops = 0
    /\ phase = "run"

\* the outcome r of operation op becomes the state
Apply(op, args, r, val) ==
    /\ bind' = r.W.bind
    /\ sim' = r.W.sim
    /\ inst' = r.W.inst
    /\ written' = r.W.written
    /\ last' = [op |-> op, args |-> args, res |-> r.res, val |-> val, sent |-> r.sent]
    /\ nops' = nops + 1
    /\ UNCHANGED <<dev, transport, is_dual>>

\* <path>.attr = value
WriteAttr(path, a, v) ==
    Apply("write", <<path, a, v>>, Exec(<<Set(path, a, v)>>, World), NoneV)

ReadAt(W, a, t) ==
    IF t.res = "ok" THEN GetAttr(W, t.node, a)
    ELSE [W |-> W, res |-> t.res, val |-> NoneV, sent |-> <<>>]

\* the value and the effect of the expression  <path>.attr
ReadOf(W, path, a) == ReadAt(W, a, Walk(W, path))

ReadDone(op, args, r) == Apply(op, args, r, r.val)

ReadAttr(path, a) == ReadDone("read", <<path, a>>, ReadOf(World, path, a))

SetupTriggering(a) == Apply("triggering", a, Exec(triggering(a), World), NoneV)

SetupFixedSource(a) == Apply("fixed_source", a, Exec(fixed_source(a), World), NoneV)

SetupCompensation(a) ==
    Apply("fixed_source_with_compensation", a, Exec(fixed_source_with_compensation(a), World), NoneV)

SetupSweepSource(a) == Apply("sweep_source", a, Exec(sweep_source(a), World), NoneV)

SetupSense(a) == Apply("sense", a, Exec(sense(a), World), NoneV)

(***************************************************************************)
(* Inputs.                                                                 *)
(***************************************************************************)
MaxOps == 2

\* the last channel of the device, as a tuple index
LastCh == IF is_dual THEN 1 ELSE 0

Trig(i) == <<Item("triggerings", i)>>

Src(i) == <<Item("sources", i)>>

Sns(i) == <<Item("senses", i)>>

Sub(path, function) == Append(path, Attr(function))

TrigArgs(source, count, timer, delay, channel) ==
    [source |-> source, count |-> count, timer |-> timer, delay |-> delay, channel |-> channel]

FixedArgs(function, value, channel) ==
    [function |-> function, value |-> value, channel |-> channel]

SweepArgs(function, start, stop, points, channel) ==
    [function |-> function, start |-> start, stop |-> stop, points |-> points,
     channel |-> channel]

SenseArgs(function, auto_range, range_, nplc, compliance, four_wire, integration_time, channel) ==
    [function |-> function, auto_range |-> auto_range, range_ |-> range_, nplc |-> nplc,
     compliance |-> compliance, four_wire |-> four_wire,
     integration_time |-> integration_time, channel |-> channel]

\* a few assignments of every kind: accepted, rejected, to a read-only
\* command, through an alias, to attributes that hold no Command
Writes ==
    {<<Trig(0), "count", IntV(5)>>,
     <<Trig(0), "count", IntV(0)>>,
     <<Trig(LastCh), "delay", Num(0, 100000)>>,
     <<Sns(0), "four_wire", Bool(TRUE)>>,
     <<Sub(Sns(0), "voltage"), "nplc", IntV(1)>>,
     <<Sub(Sns(0), "voltage"), "is_in_compliance", Bool(TRUE)>>,
     <<Src(0), "function_mode", Str("current")>>,
     <<Src(0), "function_mode", Str("volt")>>,
     <<Sub(Src(LastCh), "voltage"), "level", Num(0, 500000)>>,
     <<<<>>, "sense_elements", List(<<Str("voltage"), Str("current")>>)>>,
     <<<<>>, "format", Str("x")>>,
     <<<<>>, "note", IntV(5)>>}

Reads ==
    {<<Trig(0), "count">>,
     <<Sns(0), "remote_sense">>,
     <<Sub(Sns(0), "voltage"), "nplc">>,
     <<Sub(Sns(0), "voltage"), "is_in_compliance">>,
     <<Src(0), "mode">>,
     <<Sub(Src(LastCh), "voltage"), "level">>,
     <<<<>>, "sense_elements">>,
     <<<<Attr("format")>>, "elements">>,
     <<<<>>, "note">>}
    \cup (IF dev = "B2900"
          THEN {<<Sub(Trig(0), "transient"), "count">>, <<Sub(Trig(0), "acquire"), "count">>}
          ELSE {})

TriggeringInputs ==
    {TrigArgs(NoneV, IntV(3), NoneV, NoneV, 1),
     TrigArgs(NoneV, NoneV, NoneV, Num(0, 200000), 1),
     TrigArgs(NoneV, NoneV, NoneV, NoneV, 1),
     TrigArgs(NoneV, IntV(7), NoneV, IntV(-1), 2)}
    \cup (IF dev = "B2900"
          THEN {TrigArgs(Str("bus"), NoneV, Num(0, 1000), NoneV, 1)}
          ELSE {})

FixedSourceInputs ==
    {FixedArgs("voltage", Num(0, 250000), 1),
     FixedArgs("current", NoneV, 1),
     FixedArgs("current", IntV(11), 2),
     FixedArgs("resistance", IntV(1), 1)}

SweepSourceInputs ==
    {SweepArgs("voltage", Num(-1, 900000), Num(0, 100000), IntV(101), 1),
     SweepArgs("current", IntV(0), Num(0, 1000), IntV(11), 2),
     SweepArgs("current", IntV(0), Num(0, 1000), IntV(1), 1)}

SenseInputs ==
    {SenseArgs("voltage", Bool(TRUE), NoneV, IntV(2), NoneV, NoneV, NoneV, 1),
     SenseArgs("current", Bool(FALSE), Num(0, 100000), NoneV, Num(0, 100000), Bool(TRUE),
               Num(0, 20000), 1),
     SenseArgs("voltage", Bool(TRUE), Num(0, 100000), NoneV, NoneV, NoneV, NoneV, 1),
     SenseArgs("current", NoneV, NoneV, NoneV, NoneV, NoneV, Num(0, 20000), 2)}

(***************************************************************************)
(* The device under any sequence of at most MaxOps operations.             *)
(***************************************************************************)
Running == phase = "run" /\ nops < MaxOps

Write == \E x \in Writes : Running /\ WriteAttr(x[1], x[2], x[3]) /\ UNCHANGED phase

Read == \E x \in Reads : Running /\ ReadAttr(x[1], x[2]) /\ UNCHANGED phase

CallTriggering == \E a \in TriggeringInputs : Running /\ SetupTriggering(a) /\ UNCHANGED phase

CallFixedSource == \E a \in FixedSourceInputs : Running /\ SetupFixedSource(a) /\ UNCHANGED phase

CallSweepSource == \E a \in SweepSourceInputs : Running /\ SetupSweepSource(a) /\ UNCHANGED phase

CallSense == \E a \in SenseInputs : Running /\ SetupSense(a) /\ UNCHANGED phase

Next ==
    \/ Write
    \/ Read
    \/ CallTriggering
    \/ CallFixedSource
    \/ CallSweepSource
    \/ CallSense

Spec == Init /\ [][Next]_vars

(***************************************************************************)
(* The driver tree of the device object and the values of each command.    *)
(***************************************************************************)
Range(f) == {f[x] : x \in DOMAIN f}

\* the Driver objects held by the attributes d of a node
ChildrenOf(d) ==
    UNION {CASE d[a].kind = "drv" -> {d[a].node}
             [] d[a].kind = "tuple" -> Range(d[a].nodes)
             [] OTHER -> {}
           : a \in DOMAIN d}

RECURSIVE Closure(_)
Closure(S) ==
    LET T == S \cup UNION {ChildrenOf(DeclOf(n)) : n \in S}
    IN  IF T = S THEN S ELSE Closure(T)

AllNodes == Closure({Root(dev)})

CommandsOf(n, d) ==
    {[n |-> n, a |-> a, cmd |-> Target(n, a, d).cmd, id |-> Target(n, a, d).id]
     : a \in {x \in DOMAIN d : d[x].kind \in {"cmd", "ref"}}}

\* every attribute of the tree that holds a Command
AllCommands == UNION {CommandsOf(n, DeclOf(n)) : n \in AllNodes}

\* the access path of a node: the nodes of a channel are reached through a tuple
PathOf(n) ==
    [j \in 1..Len(n.at) |-> IF j = 1 /\ n.c > 0 THEN Item(n.at[1], n.c - 1) ELSE Attr(n.at[j])]

NumAdd(a, b) == Num(a.w + b.w + ((a.u + b.u) \div Micro), (a.u + b.u) % Micro)

\* the smallest step of the fixed point numbers
Eps == Num(0, 1)

Opt(x) == IF IsNone(x) THEN {} ELSE {x}

\* native values a codec accepts: the end points of a bounded type, one
\* value for an unbounded one, the first and the last key of a table
ValidScalars(type) ==
    CASE type.k = "Boolean" -> {Bool(TRUE), Bool(FALSE)}
      [] type.k \in {"Integer", "Float"} ->
            IF IsNone(type.lo) /\ IsNone(type.hi) THEN {IntV(1)}
            ELSE Opt(type.lo) \cup Opt(type.hi)
      [] type.k = "Mapping" -> {Str(type.table[1][1]), Str(type.table[Len(type.table)][1])}
      [] type.k = "String" -> {Str("a")}

\* native values a codec rejects: just outside each bound, a key not in the table
InvalidScalars(type) ==
    CASE type.k = "Integer" ->
            {NumAdd(x, IntV(-1)) : x \in Opt(type.lo)} \cup {NumAdd(x, IntV(1)) : x \in Opt(type.hi)}
      [] type.k = "Float" ->
            {NumAdd(x, Neg(Eps)) : x \in Opt(type.lo)} \cup {NumAdd(x, Eps) : x \in Opt(type.hi)}
      [] type.k = "Mapping" -> {Str("bogus")}
      [] OTHER -> {}

\* values to assign to a command of type ctype: scalars, and sequences of
\* two for a Stream
ValidValues(ctype) ==
    IF ctype.types = <<>> THEN {IntV(1)}
    ELSE IF ctype.rep
    THEN ValidScalars(ctype.types[1])
         \cup {List(<<x, y>>) : x \in ValidScalars(ctype.types[1]),
                                y \in ValidScalars(ctype.types[1])}
    ELSE IF Len(ctype.types) = 1 THEN ValidScalars(ctype.types[1])
    ELSE {List([i \in DOMAIN ctype.types |-> CHOOSE x \in ValidScalars(ctype.types[i]) : TRUE])}

InvalidValues(ctype) ==
    IF ctype.types = <<>> THEN {} ELSE InvalidScalars(ctype.types[1])

(***************************************************************************)
(* One assignment to, or one read of, any command of the tree, followed by *)
(* a few other operations.                                                 *)
(***************************************************************************)
FewWrites ==
    {<<Trig(0), "count", IntV(5)>>,
     <<Sns(0), "four_wire", Bool(TRUE)>>,
     <<Sub(Sns(0), "voltage"), "auto_range", Bool(TRUE)>>,
     <<Sub(Src(0), "current"), "points", IntV(7)>>,
     <<Sub(Src(0), "current"), "level", Num(10, 1)>>,
     <<Src(LastCh), "function_mode", Str("current")>>}

FewReads ==
    {<<Sub(Sns(0), "voltage"), "nplc">>,
     <<Src(0), "sweep_points">>}

WriteFirst ==
    /\ phase = "run"
    /\ nops = 0
    /\ \E x \in AllCommands :
           \E v \in ValidValues(x.cmd.type) \cup InvalidValues(x.cmd.type) :
               WriteAttr(PathOf(x.n), x.a, v)
    /\ UNCHANGED phase

ReadFirst ==
    /\ phase = "run"
    /\ nops = 0
    /\ \E x \in AllCommands : ReadAttr(PathOf(x.n), x.a)
    /\ UNCHANGED phase

WriteOther == \E x \in FewWrites : Running /\ WriteAttr(x[1], x[2], x[3]) /\ UNCHANGED phase

ReadOther == \E x \in FewReads : Running /\ ReadAttr(x[1], x[2]) /\ UNCHANGED phase

NextRW ==
    \/ WriteFirst
    \/ ReadFirst
    \/ WriteOther
    \/ ReadOther

SpecRW == Init /\ [][NextRW]_vars

\* the value a query of the Command with identity id returns
QueryOf(W, id) == GetAttr(W, id[1], id[2])

HasQuery(id) == DeclOf(id[1])[id[2]].cmd.q # NoHdr

MaxPrep == 2

Preparing == phase = "run" /\ nops < MaxPrep

\* channel numbers: those of the device, and the first one beyond them
ChannelInputs == 1..(LastCh + 2)

SenseWrites ==
    {<<Sns(0), "four_wire", Bool(TRUE)>>,
     <<Sub(Sns(0), "voltage"), "nplc", IntV(2)>>,
     <<Sub(Sns(LastCh), "current"), "auto_range", Bool(TRUE)>>}

SenseProbes ==
    {SenseArgs(f, ar, rg, np, co, fw, it, ch) :
        f \in {"voltage", "current"},
        ar \in {NoneV, Bool(TRUE), Bool(FALSE)},
        rg \in {NoneV, Num(0, 100000)},
        np \in {NoneV, IntV(1)},
        co \in {NoneV, Num(0, 50000)},
        fw \in {NoneV, Bool(TRUE)},
        it \in {NoneV, Num(0, 40000)},
        ch \in ChannelInputs}

PrepareSenseWrite ==
    \E x \in SenseWrites : Preparing /\ WriteAttr(x[1], x[2], x[3]) /\ UNCHANGED phase

PrepareSense == \E a \in SenseInputs : Preparing /\ SetupSense(a) /\ UNCHANGED phase

ProbeSense ==
    /\ phase = "run"
    /\ \E a \in SenseProbes : SetupSense(a)
    /\ phase' = "done"

NextSense ==
    \/ PrepareSenseWrite
    \/ PrepareSense
    \/ ProbeSense

SpecSense == Init /\ [][NextSense]_vars

\* auto_range and (range_ is not None), or nplc and integration_time both given
MutuallyExclusive(a) ==
    \/ Truthy(a.auto_range) /\ ~IsNone(a.range_)
    \/ ~IsNone(a.nplc) /\ ~IsNone(a.integration_time)

\* the device has a channel <channel>
ChannelInRange(channel) == TupleIndex(LastCh + 1, channel - 1) # 0

NothingWritten == last'.sent = <<>> /\ sim' = sim /\ inst' = inst /\ bind' = bind

SourceWrites ==
    {<<Trig(0), "count", IntV(5)>>,
     <<Sub(Src(0), "voltage"), "level", IntV(1)>>,
     <<Sub(Src(LastCh), "current"), "level_triggered", Num(0, 1000)>>}

SweepProbes ==
    {SweepArgs(f, start, stop, points, ch) :
        f \in {"voltage", "current"},
        start \in {Num(-1, 900000), IntV(0)},
        stop \in {Num(0, 100000), IntV(10), IntV(11)},
        points \in {IntV(1), IntV(101), IntV(2500), IntV(2501)},
        ch \in ChannelInputs}

PrepareSourceWrite ==
    \E x \in SourceWrites : Preparing /\ WriteAttr(x[1], x[2], x[3]) /\ UNCHANGED phase

PrepareSweep == \E a \in SweepSourceInputs : Preparing /\ SetupSweepSource(a) /\ UNCHANGED phase

ProbeSweep ==
    /\ phase = "run"
    /\ \E a \in SweepProbes : SetupSweepSource(a)
    /\ phase' = "done"

NextSweep ==
    \/ PrepareSourceWrite
    \/ PrepareSweep
    \/ ProbeSweep

SpecSweep == Init /\ [][NextSweep]_vars

\* <path>.attr reads as v
ReadsAs(W, path, a, v) == ReadOf(W, path, a).res = "ok" /\ ReadOf(W, path, a).val = v

\* the trigger count of the channel at tuple index i is v.  On K2400 it is
\* read from the trigger node; the B2900 trigger node (action ALL) is write
\* only: v is the last value written through it, and on the instrument the
\* count of the transient and of the acquire action
TriggerCountIs(W, i, v) ==
    IF dev = "K2400" THEN ReadsAs(W, Trig(i), "count", v)
    ELSE /\ Walk(W, Trig(i)).res = "ok"
         /\ <<Walk(W, Trig(i)).node, "count">> \in DOMAIN W.written
         /\ W.written[<<Walk(W, Trig(i)).node, "count">>] = v
         /\ transport = "physical" =>
                /\ ReadsAs(W, Sub(Trig(i), "transient"), "count", v)
                /\ ReadsAs(W, Sub(Trig(i), "acquire"), "count", v)

NumAbsLeq(x, bound) == NumLeq(Neg(bound), x) /\ NumLeq(x, bound)

\* the arguments of sweep_source are within the bounds of the settings
SweepInBounds(a) ==
    /\ a.function \in {"voltage", "current"}
    /\ ChannelInRange(a.channel)
    /\ NumLeq(IntV(1), a.points) /\ NumLeq(a.points, IntV(2500))
    /\ NumAbsLeq(a.start, IF a.function = "voltage" THEN IntV(210) ELSE IntV(10))
    /\ NumAbsLeq(a.stop, IF a.function = "voltage" THEN IntV(210) ELSE IntV(10))

SweepSet(W, a) ==
    /\ TriggerCountIs(W, a.channel - 1, a.points)
    /\ ReadsAs(W, Src(a.channel - 1), "function_mode", Str(a.function))
    /\ ReadsAs(W, Sub(Src(a.channel - 1), a.function), "mode", Str("sweep"))
    /\ ReadsAs(W, Sub(Src(a.channel - 1), a.function), "sweep_start", a.start)
    /\ ReadsAs(W, Sub(Src(a.channel - 1), a.function), "sweep_stop", a.stop)
    /\ ReadsAs(W, Sub(Src(a.channel - 1), a.function), "sweep_points", a.points)

\* C3: sweep_source for 'voltage' or 'current' with values within bounds
\* returns, and after it returns the channel's trigger count is points, the
\* source function mode is function, the selected sub-source has mode
\* 'sweep' and its sweep start, stop and points are start, stop and points
C3_SweepSource ==
    last.op = "sweep_source" =>
        /\ SweepInBounds(last.args) => last.res = "ok"
        /\ (last.res = "ok" /\ last.args.function \in {"voltage", "current"})
               => SweepSet(World, last.args)

\* a sweep set up on a channel whose settings held other values before
C3_Witness ==
    /\ last.op = "sweep_source"
    /\ last.res = "ok"
    /\ nops > 2
    /\ last.args.function = "current"
    /\ SweepSet(World, last.args)

(***************************************************************************)
(* Setup.fixed_source called with every combination of its arguments,      *)
(* after at most MaxPrep operations on the source and trigger settings.    *)
(***************************************************************************)
FixedProbes ==
    {FixedArgs(f, value, ch) :
        f \in {"voltage", "current", "resistance"},
        value \in {NoneV, Num(0, 250000), IntV(-10), IntV(10), Num(10, 1), IntV(210), IntV(211)},
        ch \in ChannelInputs}

PrepareFixed == \E a \in FixedSourceInputs : Preparing /\ SetupFixedSource(a) /\ UNCHANGED phase

ProbeFixed ==
    /\ phase = "run"
    /\ \E a \in FixedProbes : SetupFixedSource(a)
    /\ phase' = "done"

NextFixed ==
    \/ PrepareSourceWrite
    \/ PrepareFixed
    \/ ProbeFixed

SpecFixed == Init /\ [][NextFixed]_vars

\* the arguments of fixed_source are within the bounds of the settings
FixedInBounds(a) ==
    /\ a.function \in {"voltage", "current"}
    /\ ChannelInRange(a.channel)
    /\ IsNone(a.value)
        \/ NumAbsLeq(a.value, IF a.function = "voltage" THEN IntV(210) ELSE IntV(10))

\* the level and the triggered level of the selected sub-source after the
\* call: the value given, or what they were before the call
FixedLevels(W, V, a) ==
    LET sub == Sub(Src(a.channel - 1), a.function)
    IN  IF IsNone(a.value)
        THEN /\ ReadOf(V, sub, "level").res = "ok"
             /\ ReadOf(V, sub, "level").val = ReadOf(W, sub, "level").val
             /\ ReadOf(V, sub, "level_triggered").res = "ok"
             /\ ReadOf(V, sub, "level_triggered").val = ReadOf(W, sub, "level_triggered").val
        ELSE /\ ReadsAs(V, sub, "level", a.value)
             /\ ReadsAs(V, sub, "level_triggered", a.value)

FixedSet(W, V, a) ==
    /\ TriggerCountIs(V, a.channel - 1, IntV(1))
    /\ ReadsAs(V, Src(a.channel - 1), "function_mode", Str(a.function))
    /\ ReadsAs(V, Sub(Src(a.channel - 1), a.function), "mode", Str("fixed"))
    /\ FixedLevels(W, V, a)

\* C4: fixed_source for 'voltage' or 'current' with a value within bounds
\* returns, and after it returns the channel's trigger count is 1, the
\* source function mode is function, the selected sub-source has mode
\* 'fixed' and its level and level_triggered are value, or, with value
\* None, what they were before the call
C4_FixedSource ==
    [][last'.op = "fixed_source" =>
        /\ FixedInBounds(last'.args) => last'.res = "ok"
        /\ (last'.res = "ok" /\ last'.args.function \in {"voltage", "current"})
               => FixedSet(World, World', last'.args)]_vars

\* a call without a value on a sub-source whose level was written before
C4_Witness ==
    /\ last.op = "fixed_source"
    /\ last.res = "ok"
    /\ last.args = FixedArgs("voltage", NoneV, 1)
    /\ ReadsAs(World, Sub(Src(0), "voltage"), "level", IntV(1))
    /\ ReadsAs(World, Sub(Src(0), "voltage"), "mode", Str("fixed"))

\* <path>.attr reads in V as the argument given or, for None, as it read in W
SetOrKept(W, V, path, a, arg) ==
    /\ ReadOf(V, path, a).res = "ok"
    /\ ReadOf(V, path, a).val = IF IsNone(arg) THEN ReadOf(W, path, a).val ELSE arg

SenseSet(W, V, a, nplcToo) ==
    LET node == Sns(a.channel - 1)
        sub == Sub(node, a.function)
    IN  /\ SetOrKept(W, V, node, "four_wire", a.four_wire)
        /\ SetOrKept(W, V, sub, "auto_range", a.auto_range)
        /\ SetOrKept(W, V, sub, "range", a.range_)
        /\ SetOrKept(W, V, sub, "compliance", a.compliance)
        /\ nplcToo => SetOrKept(W, V, sub, "nplc", a.nplc)

C5_AsStated ==
    [][(last'.op = "sense" /\ last'.res = "ok")
          => SenseSet(World, World', last'.args, TRUE)]_vars

\* C5: after a sense call that does not raise, four_wire, auto_range, range,
\* nplc and compliance read back as the argument given and, for an argument
\* None, as before the call; except nplc on K2400 when integration_time is
\* given, which the call sets from integration_time
C5_SenseSets ==
    [][(last'.op = "sense" /\ last'.res = "ok")
          => SenseSet(World, World', last'.args,
                      ~(dev = "K2400" /\ ~IsNone(last'.args.integration_time)))]_vars

\* a call that sets range and leaves nplc, written before, as it was
C5_Witness ==
    /\ last.op = "sense"
    /\ last.res = "ok"
    /\ last.args.function = "voltage" /\ last.args.channel = 1
    /\ IsNone(last.args.nplc) /\ IsNone(last.args.integration_time)
    /\ ReadsAs(World, Sub(Sns(0), "voltage"), "nplc", IntV(2))
    /\ ReadsAs(World, Sub(Sns(0), "voltage"), "range", Num(0, 100000))
    /\ ReadsAs(World, Sub(Sns(0), "voltage"), "auto_range", Bool(FALSE))

(***************************************************************************)
(* Setup.triggering called with every combination of its arguments, after  *)
(* at most MaxPrep operations on the trigger settings.                     *)
(***************************************************************************)
TrigWrites ==
    {<<Trig(0), "count", IntV(5)>>,
     <<Trig(0), "delay", Num(0, 100000)>>,
     <<Trig(LastCh), "count", IntV(9)>>}

TrigProbes ==
    {TrigArgs(source, count, timer, delay, ch) :
        source \in IF dev = "B2900" THEN {NoneV, Str("bus")} ELSE {NoneV},
        count \in {NoneV, IntV(3), IntV(0)},
        timer \in IF dev = "B2900" THEN {NoneV, Num(0, 500000)} ELSE {NoneV},
        delay \in {NoneV, Num(0, 200000), IntV(-1)},
        ch \in ChannelInputs}

PrepareTrigWrite ==
    \E x \in TrigWrites : Preparing /\ WriteAttr(x[1], x[2], x[3]) /\ UNCHANGED phase

PrepareTrig == \E a \in TriggeringInputs : Preparing /\ SetupTriggering(a) /\ UNCHANGED phase

ProbeTrig ==
    /\ phase = "run"
    /\ \E a \in TrigProbes : SetupTriggering(a)
    /\ phase' = "done"

NextTrig ==
    \/ PrepareTrigWrite
    \/ PrepareTrig
    \/ ProbeTrig

SpecTrig == Init /\ [][NextTrig]_vars

\* the settings Setup.triggering takes on the device
TrigSettings == IF dev = "K2400" THEN {"count", "delay"} ELSE {"source", "count", "timer", "delay"}

\* what the trigger setting s of the channel at tuple index i holds.  On
\* K2400 it is read from the trigger node; the B2900 trigger node (action
\* ALL) is write only: it holds the last value written through it, and on
\* the instrument the setting of the transient and of the acquire action
TrigHeld(W, i, s) ==
    LET node == Walk(W, Trig(i)).node
    IN  IF dev = "K2400" THEN <<ReadOf(W, Trig(i), s).val>>
        ELSE <<IF <<node, s>> \in DOMAIN W.written THEN W.written[<<node, s>>] ELSE NoneV>>
          \o (IF transport = "physical"
              THEN <<ReadOf(W, Sub(Trig(i), "transient"), s).val,
                     ReadOf(W, Sub(Trig(i), "acquire"), s).val>>
              ELSE <<>>)

TrigSet(W, V, a) ==
    \A s \in TrigSettings :
        IF IsNone(a[s]) THEN TrigHeld(V, a.channel - 1, s) = TrigHeld(W, a.channel - 1, s)
        ELSE \A k \in DOMAIN TrigHeld(V, a.channel - 1, s) :
                 TrigHeld(V, a.channel - 1, s)[k] = a[s]

TrigKept(W, V, a) ==
    \A s \in TrigSettings :
        (IsNone(a[s]) /\ ChannelInRange(a.channel))
            => TrigHeld(V, a.channel - 1, s) = TrigHeld(W, a.channel - 1, s)

\* C6: a triggering call that returns has written exactly the settings whose
\* argument is not None, each holding its argument afterwards; a setting
\* whose argument is None holds what it held before, whether the call
\* returns or raises; with all arguments None nothing is sent
C6_Triggering ==
    [][last'.op = "triggering" =>
        /\ last'.res = "ok" =>
              /\ TrigSet(World, World', last'.args)
              /\ Len(last'.sent)
                    = Cardinality({s \in TrigSettings : ~IsNone(last'.args[s])})
        /\ TrigKept(World, World', last'.args)
        /\ (\A s \in TrigSettings : IsNone(last'.args[s])) => NothingWritten]_vars

\* a call that sets the count and leaves the delay, written before, alone
C6_Witness ==
    /\ last.op = "triggering"
    /\ last.res = "ok"
    /\ last.args.count = IntV(3) /\ IsNone(last.args.delay) /\ last.args.channel = 1
    /\ TrigHeld(World, 0, "count")[1] = IntV(3)
    /\ TrigHeld(World, 0, "delay")[1] = Num(0, 100000)

\* the commands the drivers declare without a query template: every setting
\* of a B2900 trigger or arm node with action ALL, the B2900 sweep points,
\* the K2400 list append
WriteOnly(path, a) ==
    \/ /\ dev = "B2900"
       /\ Len(path) = 1
       /\ path[1].a \in {"triggerings", "arms"}
       /\ a \in {"bypass", "count", "delay", "source_lan", "source", "timer",
                 "output_signal", "output_state"}
    \/ /\ dev = "B2900"
       /\ Len(path) >= 1
       /\ \/ path = <<Item("sources", path[1].i), Attr("sweep")>> /\ a = "points"
          \/ path = <<Item("sources", path[1].i)>> /\ a = "sweep_points"
    \/ dev = "K2400" /\ a = "_extend"

\* the commands the drivers declare without a write template
ReadOnly(a) == a \in {"is_in_compliance", "interlock_tripped", "actual_points"}

NothingSent == NothingWritten /\ written' = written

\* C7: the commands declared without a query template are the write-only
\* ones named above and reading one fails with NotReadableError; the
\* commands declared without a write template are the read-only ones and
\* writing one fails with NotWritableError; in both cases nothing is sent
C7_NoTemplate ==
    [][/\ nops = 0 =>
            \A x \in AllCommands :
                /\ x.cmd.q = NoHdr <=> WriteOnly(PathOf(x.n), x.a)
                /\ x.cmd.w = NoHdr <=> ReadOnly(x.a)
       /\ (last'.op = "read" /\ WriteOnly(last'.args[1], last'.args[2]))
              => (last'.res = "NotReadableError" /\ NothingSent)
       /\ (last'.op = "write" /\ ReadOnly(last'.args[2]))
              => (last'.res = "NotWritableError" /\ NothingSent)]_vars

\* the B2900 sweep points are read after another command was written
C7_Witness ==
    /\ dev = "B2900"
    /\ last.op = "read"
    /\ last.args = <<Src(0), "sweep_points">>
    /\ last.res = "NotReadableError"
    /\ last.sent = <<>>
    /\ written # <<>>

\* a command of one bounded number
Bounded(cmd) ==
    /\ Len(cmd.type.types) = 1 /\ ~cmd.type.rep
    /\ cmd.type.types[1].k \in {"Integer", "Float"}
    /\ ~IsNone(cmd.type.types[1].lo) \/ ~IsNone(cmd.type.types[1].hi)

\* the bounds the drivers declare for the K2400 trigger count, the
\* integration time in line cycles and the source levels
DeclaredBounds(path, a) ==
    IF dev = "K2400" /\ path = Trig(0) /\ a = "count" THEN <<IntV(1), IntV(2500)>>
    ELSE IF Len(path) = 2 /\ path[1].a = "senses" /\ a = "nplc" THEN <<Num(0, 10000), IntV(10)>>
    ELSE IF Len(path) = 2 /\ path[1].a = "sources" /\ path[2] = Attr("voltage")
            /\ a \in {"level", "level_triggered"}
    THEN <<IntV(-210), IntV(210)>>
    ELSE IF Len(path) = 2 /\ path[1].a = "sources" /\ path[2] = Attr("current")
            /\ a \in {"level", "level_triggered"}
    THEN <<IntV(-10), IntV(10)>>
    ELSE <<>>

\* the assignment  <path>.a = v  of a number to a bounded command cmd did
\* what its bounds lo..hi demand
BoundsKept(W, V, r, path, a, v, cmd, lo, hi) ==
    IF (IsNone(lo) \/ NumLeq(lo, v)) /\ (IsNone(hi) \/ NumLeq(v, hi))
    THEN /\ r.res = "ok"
         /\ cmd.q # NoHdr => ReadsAs(V, path, a, v)
    ELSE /\ r.res = "RangeError"
         /\ r.sent = <<>>
         /\ V = W

BoundedWrite(W, V, r, path, a, v, t, d) ==
    (/\ t.res = "ok"
     /\ a \in DOMAIN d
     /\ d[a].kind \in {"cmd", "ref"}
     /\ v.t = "num") =>
        LET cmd == Target(t.node, a, d).cmd
            type == cmd.type.types[1]
            lit == DeclaredBounds(path, a)
        IN  /\ (Bounded(cmd) /\ cmd.w # NoHdr /\ (type.k = "Integer" => v.u = 0))
                   => BoundsKept(W, V, r, path, a, v, cmd, type.lo, type.hi)
            /\ lit # <<>> => BoundsKept(W, V, r, path, a, v, cmd, lit[1], lit[2])

DeviceMappings ==
    {ty.table : ty \in {y \in UNION {Range(x.cmd.type.types) : x \in AllCommands} :
                            y.k = "Mapping"}}

MappingTables ==
    DeviceMappings \cup Range(K2000_mappings) \cup Range(K6487_mappings)
        \cup Range(K6517B_mappings)

Keys(table) == {table[j][1] : j \in DOMAIN table}

\* keys to try on a table: each of its keys, and one it does not have
KeyInputs(table) == Keys(table) \cup {"bogus"}

Pure(res) == [W |-> World, res |-> res, sent |-> <<>>]

Encoded(table, key, e) ==
    Apply("encode", <<table, key>>, Pure(IF e.ok THEN "ok" ELSE e.err),
          IF e.ok THEN e.val ELSE NoneV)

Decoded(table, token, d) ==
    Apply("decode", <<table, token>>, Pure(IF d.ok THEN "ok" ELSE d.err),
          IF d.ok THEN d.val ELSE NoneV)

EncodeKey ==
    /\ phase = "run"
    /\ nops = 0
    /\ \E table \in MappingTables :
           \E key \in KeyInputs(table) :
               Encoded(table, Str(key), Encode(Mapping(table), Str(key)))
    /\ UNCHANGED phase

DecodeToken ==
    /\ phase = "run"
    /\ last.op = "encode"
    /\ last.res = "ok"
    /\ Decoded(last.args[1], last.val, Decode(Mapping(last.args[1]), last.val))
    /\ phase' = "done"

IsMappingCommand(cmd) ==
    Len(cmd.type.types) = 1 /\ ~cmd.type.rep /\ cmd.type.types[1].k = "Mapping"

WriteKey ==
    /\ phase = "run"
    /\ nops = 0
    /\ \E x \in {y \in AllCommands : IsMappingCommand(y.cmd)} :
           \E key \in KeyInputs(x.cmd.type.types[1].table) :
               WriteAttr(PathOf(x.n), x.a, Str(key))
    /\ phase' = "done"

NextCodec ==
    \/ EncodeKey
    \/ DecodeToken
    \/ WriteKey

SpecCodec == Init /\ [][NextCodec]_vars

\* distinct keys of the table have distinct tokens
Injective(table) ==
    \A i, j \in DOMAIN table :
        (table[i][1] = table[j][1] \/ table[i][2] = table[j][2]) => i = j

\* the assignment of key to a command cmd with a Mapping table went through
\* as one write of the key's token, or failed with nothing written
KeyWritten(r, key, cmd, table) ==
    cmd.w # NoHdr =>
        IF key \in Keys(table)
        THEN /\ r.res = "ok"
             /\ \E j \in DOMAIN table :
                    /\ table[j][1] = key
                    /\ r.sent = <<Message("write", cmd.w, <<Tok(table[j][2])>>)>>
        ELSE r.res = "UnknownKeyError" /\ NothingSent

\* C9: every Mapping table of the drivers maps distinct keys to distinct
\* tokens; encoding a key of the table and decoding the token gives the key
\* back; encoding, or assigning to a command, a key that is not in the table
\* fails with UnknownKeyError and sends nothing
C9_Mappings ==
    [][/\ nops = 0 => \A table \in MappingTables : Injective(table)
       /\ last'.op = "encode" =>
              last'.res = IF last'.args[2].s \in Keys(last'.args[1])
                          THEN "ok" ELSE "UnknownKeyError"
       /\ last'.op = "decode" => (last'.res = "ok" /\ last'.val = last.args[2])
       /\ last'.op = "write" =>
              KeyWritten(last', last'.args[3].s,
                         Target(Walk(World, last'.args[1]).node, last'.args[2],
                                DeclOf(Walk(World, last'.args[1]).node)).cmd,
                         Target(Walk(World, last'.args[1]).node, last'.args[2],
                                DeclOf(Walk(World, last'.args[1]).node)).cmd.type.types[1].table)
      ]_vars

\* a key of the K2000 function table has made the round trip
C9_Witness ==
    /\ last.op = "decode"
    /\ last.args[1] = K2000_mappings[1]
    /\ last.args[2] = Tok("VOLT:DC")
    /\ last.val = Str("volt_dc")

\* the constructor of n declared attribute a as a Command
DeclaredCommand(n, a, d) == a \in DOMAIN d /\ d[a].kind \in {"cmd", "ref"}

\* the assignment  n.a = v  went to Command.write of the declared Command,
\* once, and left the attribute bound as it was
Routed(W, V, r, t, v) ==
    /\ r.res = CommandWrite(W, t, IF v.t = "seq" THEN v.items ELSE <<v>>).res
    /\ r.sent = CommandWrite(W, t, IF v.t = "seq" THEN v.items ELSE <<v>>).sent
    /\ Len(r.sent) = IF r.res = "ok" THEN 1 ELSE 0
    /\ V.bind = W.bind

\* the assignment  n.a = v  replaced the attribute and sent nothing
Rebound(W, V, r, n, a, v) ==
    /\ r.res = "ok"
    /\ r.sent = <<>>
    /\ V.bind = Put(W.bind, <<n, a>>, v)
    /\ V.sim = W.sim /\ V.inst = W.inst

Assigned(W, V, r, t, a, v, d) ==
    t.res = "ok" =>
        IF DeclaredCommand(t.node, a, d)
        THEN Routed(W, V, r, Target(t.node, a, d), v)
        ELSE Rebound(W, V, r, t.node, a, v)

BothActions(V, a, s) ==
    /\ ReadsAs(V, Sub(Trig(a.channel - 1), "transient"), s, a[s])
    /\ ReadsAs(V, Sub(Trig(a.channel - 1), "acquire"), s, a[s])

FannedOut(V, a) ==
    \A s \in {"source", "count", "timer", "delay"} : ~IsNone(a[s]) => BothActions(V, a, s)

CompProbes ==
    {FixedArgs(f, value, ch) :
        f \in {"voltage", "current", "volt", "curr", "resistance"},
        value \in {NoneV, Num(0, 250000), IntV(0), IntV(-10), Num(10, 1)},
        ch \in ChannelInputs}

CompInputs ==
    {FixedArgs("voltage", Num(0, 250000), 1),
     FixedArgs("current", IntV(2), 1)}

PrepareComp == \E a \in CompInputs : Preparing /\ SetupCompensation(a) /\ UNCHANGED phase

ProbeComp ==
    /\ phase = "run"
    /\ \E a \in CompProbes : SetupCompensation(a)
    /\ phase' = "done"

NextComp ==
    \/ PrepareSourceWrite
    \/ PrepareComp
    \/ ProbeComp

SpecComp == Init /\ [][NextComp]_vars

\* the value the inverted pair is built from: the one given, or the level
\* read from the sub-source
CompValue(W, a) ==
    IF IsNone(a.value) THEN ReadOf(W, Sub(Src(a.channel - 1), a.function), "level").val
    ELSE a.value

CompSet(W, V, a) ==
    LET sub == Sub(Src(a.channel - 1), a.function)
    IN  /\ TriggerCountIs(V, a.channel - 1, IntV(2))
        /\ ReadsAs(V, Src(a.channel - 1), "function_mode", Str(a.function))
        /\ ReadsAs(V, sub, "mode", Str("list"))
        /\ ReadsAs(V, sub, "list", List(<<CompValue(W, a), Neg(CompValue(W, a))>>))

\* C12: B2900 fixed_source_with_compensation for 'voltage' or 'current'
\* with a value within bounds (or None) on an existing channel returns, and
\* after it returns the channel's trigger count is 2, the source function
\* mode is the function, the function's sub-source has mode 'list' and its
\* list reads (v, -v), v being the value given or, with None, the level the
\* sub-source read before the call
C12_Compensation ==
    [][(dev = "B2900" /\ last'.op = "fixed_source_with_compensation"
            /\ last'.args.function \in {"voltage", "current"}) =>
        /\ FixedInBounds(last'.args) => last'.res = "ok"
        /\ last'.res = "ok" => CompSet(World, World', last'.args)]_vars

\* a call without a value on the sub-source whose level was written as 1
C12_Witness ==
    /\ dev = "B2900"
    /\ last.op = "fixed_source_with_compensation"
    /\ last.res = "ok"
    /\ last.args = FixedArgs("voltage", NoneV, 1)
    /\ ReadsAs(World, Sub(Src(0), "voltage"), "list", List(<<IntV(1), IntV(-1)>>))
    /\ TriggerCountIs(World, 0, IntV(2))

\* the list of the function's sub-source is programmed to (value, -value)
ListProgrammed(V, a) ==
    ReadsAs(V, Sub(Sub(Src(a.channel - 1), a.function), "list"), "_sequence",
            List(<<a.value, Neg(a.value)>>))

\* C13: K2400 fixed_source_with_compensation with 'voltage' or 'current'
\* and a value within bounds returns with the trigger count 2, the
\* function's sub-source in mode 'list' and its list programmed to
\* (value, -value)
C13_AsStated ==
    [][(dev = "K2400" /\ last'.op = "fixed_source_with_compensation"
            /\ last'.args.function \in {"voltage", "current"}
            /\ ~IsNone(last'.args.value) /\ FixedInBounds(last'.args)) =>
        /\ last'.res = "ok"
        /\ TriggerCountIs(World', last'.args.channel - 1, IntV(2))
        /\ ReadsAs(World', Sub(Src(last'.args.channel - 1), last'.args.function), "mode",
                   Str("list"))
        /\ ListProgrammed(World', last'.args)]_vars

(***************************************************************************)
(* Integration time: sense(function, integration_time=t) after a few       *)
(* writes and sense calls                                                  *)
(***************************************************************************)
\* t * 50 is 0.005, 0.01, 2, 10 and 15
IntegrationTimes == {Num(0, 100), Num(0, 200), Num(0, 40000), Num(0, 200000), Num(0, 300000)}

ApertureProbes ==
    {SenseArgs(f, NoneV, rg, NoneV, NoneV, fw, it, ch) :
        f \in {"voltage", "current"},
        rg \in {NoneV, Num(0, 100000)},
        fw \in {NoneV, Bool(TRUE)},
        it \in IntegrationTimes,
        ch \in ChannelInputs}

ProbeAperture ==
    /\ phase = "run"
    /\ \E a \in ApertureProbes : SetupSense(a)
    /\ phase' = "done"

NextAperture ==
    \/ PrepareSenseWrite
    \/ PrepareSense
    \/ ProbeAperture

SpecAperture == Init /\ [][NextAperture]_vars

\* sense(function, integration_time=t, channel=ch) and nothing else
OnlyIntegrationTime(a) ==
    /\ IsNone(a.auto_range) /\ IsNone(a.range_) /\ IsNone(a.nplc)
    /\ IsNone(a.compliance) /\ IsNone(a.four_wire)
    /\ ~IsNone(a.integration_time)

\* t seconds in power line cycles of 1/50 s
InCycles(t) == Num(((t.w * Micro + t.u) * 50) \div Micro, ((t.w * Micro + t.u) * 50) % Micro)

NplcInRange(x) == NumLeq(Num(0, 10000), x) /\ NumLeq(x, IntV(10))

\* K2400: nplc reads t * 50, and the call fails exactly on a t * 50
\* outside 0.01..10
NplcFromTime(V, a) ==
    /\ last'.res = "ok" =>
           ReadsAs(V, Sub(Sns(a.channel - 1), a.function), "nplc", InCycles(a.integration_time))
    /\ (OnlyIntegrationTime(a) /\ ChannelInRange(a.channel)) =>
           last'.res = (IF NplcInRange(InCycles(a.integration_time)) THEN "ok" ELSE "RangeError")

\* a write to the setting <tail> of a sub-sense is among the messages
WrittenTo(sent, tail) ==
    \E i \in 1..Len(sent) :
        /\ sent[i].dir = "write"
        /\ sent[i].hdr.root = "SENS"
        /\ sent[i].hdr.path[Len(sent[i].hdr.path)] = tail

\* B2900: aperture is written with t, nplc is not written and reads as before
ApertureFromTime(W, V, a) ==
    LET sub == Sub(Sns(a.channel - 1), a.function)
    IN  last'.res = "ok" =>
            /\ WrittenTo(last'.sent, "APER")
            /\ ReadsAs(V, sub, "aperture", a.integration_time)
            /\ ~WrittenTo(last'.sent, "NPLC")
            /\ ReadOf(V, sub, "nplc").res = "ok"
            /\ ReadOf(V, sub, "nplc").val = ReadOf(W, sub, "nplc").val

\* C14: a sense call with integration_time t and no nplc.  On K2400, after
\* it returns nplc of the selected sub-sense reads t * 50, and the call with
\* nothing but t raises a range error exactly when t * 50 is outside
\* 0.01..10.  On B2900, after it returns aperture was written and reads t,
\* and nplc was not written and reads as before
C14_IntegrationTime ==
    [][(last'.op = "sense" /\ IsNone(last'.args.nplc) /\ ~IsNone(last'.args.integration_time)) =>
          IF dev = "K2400" THEN NplcFromTime(World', last'.args)
          ELSE ApertureFromTime(World, World', last'.args)]_vars

\* K2400 took t = 0.2 as nplc 10 after nplc had been written as 2
C14_Witness ==
    /\ dev = "K2400"
    /\ last.op = "sense"
    /\ last.res = "ok"
    /\ OnlyIntegrationTime(last.args)
    /\ last.args.integration_time = Num(0, 200000)
    /\ last.args.function = "voltage"
    /\ <<Walk(World, Sub(Sns(0), "voltage")).node, "nplc">> \in DOMAIN written
    /\ ReadsAs(World, Sub(Sns(0), "voltage"), "nplc", IntV(10))

(***************************************************************************)
(* The K2400 source list sequences (k2400.SourceListSequence).  Subscripts *)
(* act on the Python list that a query of _sequence returned.              *)
(***************************************************************************)
\* seq[lo:hi:step]; lo, hi and step are integers or None
SliceOf(lo, hi, step) == [k |-> "slice", lo |-> lo, hi |-> hi, step |-> step]

\* seq[i]
IndexOf(i) == [k |-> "index", i |-> i]

Whole == SliceOf(NoneV, NoneV, NoneV)

Max(a, b) == IF a >= b THEN a ELSE b

Min(a, b) == IF a <= b THEN a ELSE b

\* a bound of a slice over n elements, clipped to lower..upper
Clip(n, x, lower, upper) == IF x.w < 0 THEN Max(x.w + n, lower) ELSE Min(x.w, upper)

\* slice.indices(n) and the number of positions selected (0-based)
SliceIndices(n, sl) ==
    LET step == IF IsNone(sl.step) THEN 1 ELSE sl.step.w
        lower == IF step < 0 THEN -1 ELSE 0
        upper == IF step < 0 THEN n - 1 ELSE n
        start == IF IsNone(sl.lo) THEN (IF step < 0 THEN upper ELSE lower)
                 ELSE Clip(n, sl.lo, lower, upper)
        stop == IF IsNone(sl.hi) THEN (IF step < 0 THEN lower ELSE upper)
                ELSE Clip(n, sl.hi, lower, upper)
        count == IF step > 0 /\ start < stop THEN ((stop - start - 1) \div step) + 1
                 ELSE IF step < 0 /\ start > stop THEN ((start - stop - 1) \div (0 - step)) + 1
                 ELSE 0
    IN  [start |-> start, stop |-> stop, step |-> step, count |-> count]

\* the 1-based position the m-th selected element has
Selected(ix, m) == ix.start + (m - 1) * ix.step + 1

\* list.__getitem__
PyGetItem(val, item) ==
    IF val.t # "seq" THEN Err("TypeError")
    ELSE IF item.k = "index"
    THEN LET i == IF item.i < 0 THEN item.i + Len(val.items) ELSE item.i
         IN  IF i < 0 \/ i >= Len(val.items) THEN Err("IndexError") ELSE Ok(val.items[i + 1])
    ELSE LET ix == SliceIndices(Len(val.items), item)
         IN  IF ix.step = 0 THEN Err("ValueError")
             ELSE Ok(List([m \in 1..ix.count |-> val.items[Selected(ix, m)]]))

\* variant: an extended slice is written from its first position onwards
AssignSlice_contiguous(items, ix, new) ==
    [p \in 1..Len(items) |->
        IF p - ix.start \in 1..ix.count THEN new[p - ix.start] ELSE items[p]]

\* the elements after  items[start:stop:step] = new,  step # 1
AssignSlice(items, ix, new) ==
    [p \in 1..Len(items) |->
        IF \E m \in 1..ix.count : Selected(ix, m) = p
        THEN new[CHOOSE m \in 1..ix.count : Selected(ix, m) = p]
        ELSE items[p]]

\* list.__setitem__: the list after  val[item] = value
PySetItem(val, item, value) ==
    IF val.t # "seq" THEN Err("TypeError")
    ELSE IF item.k = "index"
    THEN LET i == IF item.i < 0 THEN item.i + Len(val.items) ELSE item.i
         IN  IF i < 0 \/ i >= Len(val.items) THEN Err("IndexError")
             ELSE Ok(List([val.items EXCEPT ![i + 1] = value]))
    ELSE LET n == Len(val.items)
             ix == SliceIndices(n, item)
         IN  IF ix.step = 0 THEN Err("ValueError")
             ELSE IF value.t # "seq" THEN Err("TypeError")
             ELSE IF ix.step = 1
             THEN Ok(List(SubSeq(val.items, 1, ix.start) \o value.items
                          \o SubSeq(val.items, Max(ix.start, ix.stop) + 1, n)))
             ELSE IF Len(value.items) # ix.count THEN Err("ValueError")
             ELSE Ok(List(AssignSlice(val.items, ix, value.items)))

\* SourceListSequence.__getitem__ : self._sequence[item]
GetItemOf(g, item) ==
    IF g.res # "ok" THEN g
    ELSE IF ~PyGetItem(g.val, item).ok THEN [g EXCEPT !.res = PyGetItem(g.val, item).err, !.val = NoneV]
    ELSE [g EXCEPT !.val = PyGetItem(g.val, item).val]

SourceListSequence_getitem(W, n, item) == GetItemOf(GetAttr(W, n, "_sequence"), item)

\* the write that ends __setitem__, after the query g and the assignment r
SetItemWrite(n, g, r) ==
    IF ~r.ok THEN [W |-> g.W, res |-> r.err, sent |-> g.sent]
    ELSE [SetAttr(g.W, n, "_sequence", r.val) EXCEPT !.sent = g.sent \o @]

\* SourceListSequence.__setitem__ : seq = self._sequence; seq[item] = value;
\* self._sequence = seq
SetItemOf(n, g, item, value) ==
    IF g.res # "ok" THEN [W |-> g.W, res |-> g.res, sent |-> g.sent]
    ELSE SetItemWrite(n, g, PySetItem(g.val, item, value))

SourceListSequence_setitem(W, n, item, value) ==
    SetItemOf(n, GetAttr(W, n, "_sequence"), item, value)

\* the instrument's list the sequence n addresses: its setting and contents
ListKey(n) == Canon(H(TRUE, "SOUR", n.c, <<"LIST", n.arg[1]>>))

ListTokens(W, n) ==
    IF ListKey(n) \in DOMAIN W.inst THEN W.inst[ListKey(n)]
    ELSE Simulate(Stream(Float(Neg(n.ulim), n.ulim)))

\* the instrument appends the data of an APPEND message to its list
Appended(n, r) ==
    IF r.res = "ok" /\ transport = "physical"
    THEN [r EXCEPT !.W.inst = Put(@, ListKey(n), ListTokens(r.W, n) \o r.sent[1].data)]
    ELSE r

\* SourceListSequence.extend : self._extend = iterable
SourceListSequence_extend(W, n, iterable) == Appended(n, SetAttr(W, n, "_extend", iterable))

\* the response to  :SOUR:LIST:<node>:POIN?  : the simulated transport
\* answers for a Command made for this one query, the instrument with the
\* number of points of its list
PointsResponse(W, n) ==
    IF transport = "simulated" THEN Simulate(Single(Integer(NoneV, NoneV)))
    ELSE <<NumTok(IntV(Len(ListTokens(W, [n EXCEPT !.c = 1]))))>>

\* SourceListSequence.__len__
SourceListSequence_len(W, n) ==
    [W |-> W, res |-> "ok",
     val |-> Load(Single(Integer(NoneV, NoneV)), PointsResponse(W, n)).val[1],
     sent |-> <<Message("query", H(TRUE, "SOUR", 0, <<"LIST", n.arg[1], "POIN">>), <<>>)>>]

\* the outcome of an expression on the object a path did not lead to
Missing(W, t) == [W |-> W, res |-> t.res, val |-> NoneV, sent |-> <<>>]

\* <path>[item]
GetItem(W, path, item) ==
    IF Walk(W, path).res = "ok" THEN SourceListSequence_getitem(W, Walk(W, path).node, item)
    ELSE Missing(W, Walk(W, path))

\* <path>[item] = value
SetItem(W, path, item, value) ==
    IF Walk(W, path).res = "ok"
    THEN SourceListSequence_setitem(W, Walk(W, path).node, item, value)
    ELSE Missing(W, Walk(W, path))

\* <path>.extend(iterable)
Extend(W, path, iterable) ==
    IF Walk(W, path).res = "ok"
    THEN SourceListSequence_extend(W, Walk(W, path).node, iterable)
    ELSE Missing(W, Walk(W, path))

\* len(<path>)
LenOf(W, path) ==
    IF Walk(W, path).res = "ok" THEN SourceListSequence_len(W, Walk(W, path).node)
    ELSE Missing(W, Walk(W, path))

SeqGetItem(path, item) == ReadDone("getitem", <<path, item>>, GetItem(World, path, item))

SeqSetItem(path, item, value) ==
    Apply("setitem", <<path, item, value>>, SetItem(World, path, item, value), NoneV)

SeqExtend(path, iterable) == Apply("extend", <<path, iterable>>, Extend(World, path, iterable), NoneV)

SeqLen(path) == ReadDone("len", <<path>>, LenOf(World, path))

(***************************************************************************)
(* Source lists of a K2400: the list is given contents, then used          *)
(***************************************************************************)
\* source.list.current, and the same list through source.current.list
Sequences ==
    {<<Item("sources", 0), Attr("list"), Attr("current")>>,
     <<Item("sources", 0), Attr("current"), Attr("list")>>}

MaxLen == 3

\* lists of 0..MaxLen values within the bounds of the current source
Lists == {List([i \in 1..k |-> IntV(i)]) : k \in 0..MaxLen}

\* lists with a value beyond I_MAX
BadLists == {List(<<IntV(1), IntV(11)>>), List(<<IntV(11)>>)}

\* new elements, told from the old ones
NewLists == {List(<<>>), List(<<IntV(7)>>), List(<<IntV(7), IntV(8)>>)}

Bounds == {NoneV, IntV(1), IntV(-1), IntV(5)}

Steps == {NoneV, IntV(2), IntV(-1), IntV(0)}

Slices == {SliceOf(lo, hi, step) : lo \in Bounds, hi \in Bounds, step \in Steps}

\* seq._sequence = L : the contents the list has before it is used
ProgramList ==
    /\ phase = "run" /\ nops = 0 /\ dev = "K2400"
    /\ \E L \in Lists : WriteAttr(<<Item("sources", 0), Attr("list"), Attr("current")>>,
                                  "_sequence", L)
    /\ UNCHANGED phase

\* seq[:] = L
SetWhole ==
    /\ phase = "run" /\ nops = 1 /\ dev = "K2400"
    /\ \E path \in Sequences, L \in Lists \cup BadLists : SeqSetItem(path, Whole, L)
    /\ UNCHANGED phase

\* seq[i:j:k] = V
SetSlice ==
    /\ phase = "run" /\ dev = "K2400"
    /\ \E path \in Sequences, sl \in Slices, V \in NewLists : SeqSetItem(path, sl, V)
    /\ phase' = "done"

\* seq.extend(M)
ExtendList ==
    /\ phase = "run" /\ dev = "K2400"
    /\ \E path \in Sequences, M \in NewLists : SeqExtend(path, M)
    /\ phase' = "done"

\* seq[i:j:k], seq[i]
ReadSlice ==
    /\ phase = "run" /\ dev = "K2400"
    /\ \E path \in Sequences, item \in Slices \cup {IndexOf(0), IndexOf(-1), IndexOf(3)} :
           SeqGetItem(path, item)
    /\ phase' = "done"

\* len(seq)
ReadLen ==
    /\ phase = "run" /\ dev = "K2400"
    /\ \E path \in Sequences : SeqLen(path)
    /\ phase' = "done"

NextList ==
    \/ ProgramList
    \/ SetWhole
    \/ SetSlice
    \/ ExtendList
    \/ ReadSlice
    \/ ReadLen

SpecList == Init /\ [][NextList]_vars

\* seq[:] reads as the list L
ReadsWhole(W, path, L) == GetItem(W, path, Whole).res = "ok" /\ GetItem(W, path, Whole).val = L

\* after seq[:] = L with values within bounds: seq[:] is L and len(seq) its length
WholeSet(V, path, L) ==
    /\ last'.res = "ok"
    /\ ReadsWhole(V, path, L)
    /\ LenOf(V, path).val = IntV(Len(L.items))

\* after seq.extend(M): seq[:] is the contents before followed by M
Extended(W, V, path, M) ==
    /\ last'.res = "ok"
    /\ ReadsWhole(V, path, List(GetItem(W, path, Whole).val.items \o M.items))

\* C15: on a K2400 source list sequence, after seq[:] = L with all values
\* within bounds seq[:] returns L and len(seq) is the length of L; after
\* seq.extend(M) seq[:] returns the previous contents followed by M
C15_AsStated ==
    [][dev = "K2400" =>
        /\ (last'.op = "setitem" /\ last'.args[2] = Whole /\ last'.args[3] \in Lists
                /\ ReadsWhole(World, last'.args[1], GetItem(World, last'.args[1], Whole).val))
               => WholeSet(World', last'.args[1], last'.args[3])
        /\ (last'.op = "extend"
                /\ ReadsWhole(World, last'.args[1], GetItem(World, last'.args[1], Whole).val))
               => Extended(World, World', last'.args[1], last'.args[2])]_vars

\* the values the instrument's list holds, as a query of the sequence
\* command tells them: a single value comes back as a scalar
Contents(W, path) ==
    LET g == GetAttr(W, Walk(W, path).node, "_sequence")
    IN  IF g.val.t = "seq" THEN g.val.items ELSE <<g.val>>

\* the slice selects positions of old that new can take: any for a plain
\* slice, as many as new has elements for a slice with a step
Assignable(old, sl, new) ==
    /\ SliceIndices(Len(old), sl).step # 0
    /\ SliceIndices(Len(old), sl).step = 1
         \/ Len(new) = SliceIndices(Len(old), sl).count

\* old with the positions ix selects replaced by the elements of new, the
\* rest as it was and where it was
Replaced(old, ix, new) ==
    IF ix.step = 1
    THEN SubSeq(old, 1, ix.start) \o new \o SubSeq(old, Max(ix.start, ix.stop) + 1, Len(old))
    ELSE [p \in 1..Len(old) |->
             IF \E m \in 1..ix.count : ix.start + (m - 1) * ix.step = p - 1
             THEN new[CHOOSE m \in 1..ix.count : ix.start + (m - 1) * ix.step = p - 1]
             ELSE old[p]]

\* one query of the whole list, then one write of the whole list
QueryThenWrite(n, sent, items) ==
    /\ Len(sent) = 2
    /\ sent[1] = Message("query", DeclOf(n)["_sequence"].cmd.q, <<>>)
    /\ sent[2] = Message("write", DeclOf(n)["_sequence"].cmd.w, [i \in DOMAIN items |-> NumTok(items[i])])

SliceAssigned(W, V, path, sl, new) ==
    /\ last'.res = "ok"
    /\ Contents(V, path) = Replaced(Contents(W, path), SliceIndices(Len(Contents(W, path)), sl), new)
    /\ QueryThenWrite(Walk(W, path).node, last'.sent, Contents(V, path))

\* C16: a slice assignment seq[i:j:k] = V on a K2400 source list sequence
\* replaces the positions the slice selects with the elements of V, leaves
\* the other elements and their order as they were, and is carried out as
\* one query of the whole list followed by one write of the whole list
C16_AsStated ==
    [][(dev = "K2400" /\ last'.op = "setitem" /\ last'.args[2].k = "slice"
            /\ last'.args[3] \in NewLists
            /\ Assignable(Contents(World, last'.args[1]), last'.args[2], last'.args[3].items))
          => SliceAssigned(World, World', last'.args[1], last'.args[2], last'.args[3].items)]_vars

(***************************************************************************)
(* Two K2000 objects on one transport (mytests/test_k2000.py): k2000w and  *)
(* k2000r, each with its own Command objects                               *)
(***************************************************************************)
Objects == {"w", "r"}

K2000_Root(o) == Node("K2000", 0, <<>>, <<o>>, NoneV)

\* <object>.triggering
TriggerOf(W, o) == WalkFrom(W, K2000_Root(o), <<Attr("triggering")>>, 1).node

NoWorld == [bind |-> Empty, sim |-> Empty, inst |-> Empty, written |-> Empty]

\* K2000(transport): self.triggering.continuous_initiation = False
K2000_init(W, o) == SetAttr(W, TriggerOf(W, o), "continuous_initiation", Bool(FALSE)).W

\* the state after  k2000w = K2000(transport); k2000r = K2000(transport)
InitK2000 ==
    /\ dev = "K2000"
    /\ transport \in {"simulated", "physical"}
    /\ is_dual = FALSE
    /\ bind = K2000_init(K2000_init(NoWorld, "w"), "r").bind
    /\ sim = K2000_init(K2000_init(NoWorld, "w"), "r").sim
    /\ inst = K2000_init(K2000_init(NoWorld, "w"), "r").inst
    /\ written = K2000_init(K2000_init(NoWorld, "w"), "r").written
    /\ last = [op |-> "init", args |-> <<>>, res |-> "ok", val |-> NoneV, sent |-> <<>>]
    /\ nops = 0
    /\ phase = "run"

\* the values test_triggering writes, and some the settings reject
TriggerWrites ==
    {<<"continuous_initiation", Bool(TRUE)>>, <<"continuous_initiation", Bool(FALSE)>>,
     <<"count", IntV(1)>>, <<"count", IntV(1000)>>,
     <<"delay", IntV(0)>>, <<"delay", IntV(9999)>>, <<"delay", IntV(-1)>>,
     <<"source", Str("immediate")>>, <<"source", Str("bus")>>, <<"source", Str("never")>>,
     <<"timer", Num(0, 1000)>>, <<"timer", IntV(9999)>>,
     <<"sample_count", IntV(1)>>, <<"sample_count", IntV(1024)>>, <<"sample_count", IntV(1025)>>}

TriggerSettings == {"continuous_initiation", "count", "delay", "source", "timer", "sample_count"}

\* <object>.triggering.<attr> = value
WriteVia ==
    /\ Running
    /\ \E o \in Objects, x \in TriggerWrites :
          Apply("write", <<o, x[1], x[2]>>, SetAttr(World, TriggerOf(World, o), x[1], x[2]), NoneV)
    /\ UNCHANGED phase

\* <object>.triggering.<attr>
ReadVia ==
    /\ Running
    /\ \E o \in Objects, a \in TriggerSettings :
          ReadDone("read", <<o, a>>, GetAttr(World, TriggerOf(World, o), a))
    /\ UNCHANGED phase

NextK2000 ==
    \/ WriteVia
    \/ ReadVia

SpecK2000 == InitK2000 /\ [][NextK2000]_vars

Other(o) == IF o = "w" THEN "r" ELSE "w"

\* the setting a, read through object o, is v
ReadsVia(W, o, a, v) ==
    /\ GetAttr(W, TriggerOf(W, o), a).res = "ok"
    /\ GetAttr(W, TriggerOf(W, o), a).val = v

C17_AsStated ==
    [][(dev = "K2000" /\ last'.op = "write" /\ last'.res = "ok")
          => ReadsVia(World', Other(last'.args[1]), last'.args[2], last'.args[3])]_vars

\* C17: on a physical transport, a value written to a trigger setting
\* through one of two K2000 objects built on that transport is the value
\* then read for the setting through the other object
C17_NoCachedState ==
    [][(dev = "K2000" /\ transport = "physical" /\ last'.op = "write" /\ last'.res = "ok")
          => ReadsVia(World', Other(last'.args[1]), last'.args[2], last'.args[3])]_vars

\* the trigger source written through k2000w reads as 'bus' through k2000r
C17_Witness ==
    /\ dev = "K2000"
    /\ transport = "physical"
    /\ last.op = "write"
    /\ last.res = "ok"
    /\ last.args = <<"w", "source", Str("bus")>>
    /\ ReadsVia(World, "r", "source", Str("bus"))

(***************************************************************************)
(* Failures inside a Setup method.  The methods catch no exception: what a *)
(* statement raises ends the method.  A failure of the transport at the    *)
(* j-th statement is the method run up to that statement.                  *)
(***************************************************************************)
\* the statements of setup.<method>(a)
ProgramOf(method, a) ==
    CASE method = "triggering" -> triggering(a)
      [] method = "fixed_source" -> fixed_source(a)
      [] method = "sweep_source" -> sweep_source(a)
      [] method = "sense" -> sense(a)

\* the transport raises in the write of statement j; j = 0: it does not
Failing(prog, j) ==
    IF j \in 1..Len(prog) /\ prog[j].k = "set"
    THEN SubSeq(prog, 1, j - 1) \o <<Raise("TransportError")>>
    ELSE prog

SetupFailing(method, a, j) ==
    Apply("setup", [method |-> method, a |-> a, j |-> j],
          Exec(Failing(ProgramOf(method, a), j), World), NoneV)

FailCalls ==
    {<<"triggering", a>> : a \in TrigProbes}
    \cup {<<"fixed_source", a>> : a \in FixedProbes}
    \cup {<<"sweep_source", a>> : a \in SweepProbes}
    \cup {<<"sense", a>> : a \in SenseInputs \cup ApertureProbes}

\* a Setup call whose j-th statement may fail in the transport
FailingCall ==
    /\ phase = "run" /\ nops <= 1
    /\ \E x \in FailCalls :
          \E j \in 0..Len(ProgramOf(x[1], x[2])) : SetupFailing(x[1], x[2], j)
    /\ phase' = "done"

NextFail ==
    \/ PrepareSourceWrite
    \/ FailingCall

SpecFail == Init /\ [][NextFail]_vars

IsSet(s) == s.k = "set"

\* the assignments of a program, in order
SetsOf(prog) == SelectSeq(prog, IsSet)

\* the statement of prog that makes its m-th assignment
PosOfSet(prog, m) ==
    CHOOSE p \in 1..Len(prog) :
        IsSet(prog[p]) /\ Cardinality({q \in 1..p : IsSet(prog[q])}) = m

\* the Command an assignment writes through
TargetOf(W, s) == Target(Walk(W, s.path).node, s.a, DeclOf(Walk(W, s.path).node))

\* the data of the write, or the error of the encoding
DataOf(W, s) == Dump(TargetOf(W, s).cmd.type, IF s.v.t = "seq" THEN s.v.items ELSE <<s.v>>)

\* the messages sent are the writes of the first assignments, once each
\* and in order
FirstWritesSent(W, sets, sent) ==
    /\ Len(sent) <= Len(sets)
    /\ \A i \in 1..Len(sent) :
          sent[i] = Message("write", TargetOf(W, sets[i]).cmd.w, DataOf(W, sets[i]).val)

\* the error of the first write that was not sent is the result
Propagated(W, prog, j, sets, r) ==
    IF r.res = "ok" THEN Len(r.sent) = Len(sets)
    ELSE r.res \in {"TransportError", "RangeError", "UnknownKeyError"} =>
            /\ Len(r.sent) < Len(sets)
            /\ IF PosOfSet(prog, Len(r.sent) + 1) = j THEN r.res = "TransportError"
               ELSE /\ ~DataOf(W, sets[Len(r.sent) + 1]).ok
                    /\ r.res = DataOf(W, sets[Len(r.sent) + 1]).err

\* the value a Command holds: its buffer on the simulated transport, the
\* settings its write header addresses on the instrument
Holds(V, t, data) ==
    IF transport = "simulated" THEN t.id \in DOMAIN V.sim /\ V.sim[t.id] = data
    ELSE \A k \in Targets(t.cmd.w) : k \in DOMAIN V.inst /\ V.inst[k] = data

\* every write sent is applied, unless a later one of the call replaced it
StayApplied(W, V, sets, n) ==
    \A i \in 1..n :
        (\A i2 \in (i + 1)..n : TargetOf(W, sets[i2]).cmd.w # TargetOf(W, sets[i]).cmd.w)
            => Holds(V, TargetOf(W, sets[i]), DataOf(W, sets[i]).val)

\* nothing but the Commands written changed
RestKept(W, V, sets, n) ==
    /\ \A k \in DOMAIN V.inst :
          \/ k \in DOMAIN W.inst /\ V.inst[k] = W.inst[k]
          \/ \E i \in 1..n : k \in Targets(TargetOf(W, sets[i]).cmd.w)
    /\ \A id \in DOMAIN V.sim :
          \/ id \in DOMAIN W.sim /\ V.sim[id] = W.sim[id]
          \/ \E i \in 1..n : id = TargetOf(W, sets[i]).id

FailFast(W, V, prog, j, r) ==
    /\ FirstWritesSent(W, SetsOf(prog), r.sent)
    /\ Propagated(W, prog, j, SetsOf(prog), r)
    /\ StayApplied(W, V, SetsOf(prog), Len(r.sent))
    /\ RestKept(W, V, SetsOf(prog), Len(r.sent))

\* C18: when the k-th write of a Setup method fails (the transport raises,
\* or the value is out of range or an unknown key), the method ends with
\* that error, the messages sent are the first k-1 writes of the method,
\* once each and in order, and their values stay applied
C18_FailFast ==
    [][last'.op = "setup" =>
          FailFast(World, World', ProgramOf(last'.args.method, last'.args.a), last'.args.j,
                   last')]_vars

\* sweep_source on B2900 failed in its last write, points = 2501, after six
\* writes that set the sweep from -1.9 to 0.1
C18_Witness ==
    /\ dev = "B2900"
    /\ transport = "physical"
    /\ last.op = "setup"
    /\ last.args.method = "sweep_source"
    /\ last.args.a = SweepArgs("voltage", Num(-1, 900000), Num(0, 100000), IntV(2501), 1)
    /\ last.args.j = 0
    /\ last.res = "RangeError"
    /\ Len(last.sent) = 6
    /\ ReadsAs(World, Sub(Src(0), "voltage"), "sweep_stop", Num(0, 100000))

\* the transport failed in the third write of fixed_source
C18_WitnessTransport ==
    /\ last.op = "setup"
    /\ last.args.method = "fixed_source"
    /\ last.res = "TransportError"
    /\ Len(last.sent) = 2

(***************************************************************************)
(* The function names of fixed_source and sweep_source                     *)
(***************************************************************************)
FunctionNames == {"voltage", "current", "volt", "curr"}

\* the function a name stands for
LongName(f) == IF f \in {"volt", "voltage"} THEN "voltage" ELSE "current"

NamedFixedProbes ==
    {FixedArgs(f, value, ch) :
        f \in FunctionNames, value \in {NoneV, Num(0, 250000), IntV(1)}, ch \in ChannelInputs}

NamedSweepProbes ==
    {SweepArgs(f, start, stop, IntV(11), ch) :
        f \in FunctionNames, start \in {IntV(0), IntV(-1)}, stop \in {Num(0, 100000), IntV(1)},
        ch \in ChannelInputs}

ProbeNamedFixed ==
    /\ phase = "run"
    /\ \E a \in NamedFixedProbes : SetupFixedSource(a)
    /\ phase' = "done"

ProbeNamedSweep ==
    /\ phase = "run"
    /\ \E a \in NamedSweepProbes : SetupSweepSource(a)
    /\ phase' = "done"

NextNames ==
    \/ PrepareSourceWrite
    \/ ProbeNamedFixed
    \/ ProbeNamedSweep

SpecNames == Init /\ [][NextNames]_vars

\* C19: fixed_source and sweep_source, called with 'volt', 'curr',
\* 'voltage' or 'current' on an existing channel, complete without error
\* and set the source function mode to the function the name stands for
C19_AsStated ==
    [][(last'.op \in {"fixed_source", "sweep_source"} /\ last'.args.function \in FunctionNames
            /\ ChannelInRange(last'.args.channel)) =>
          /\ last'.res = "ok"
          /\ ReadsAs(World', Src(last'.args.channel - 1), "function_mode",
                     Str(LongName(last'.args.function)))]_vars

(***************************************************************************)
(* Construction of a B2900: B2900.__init__ and B2900.__check__.  A model   *)
(* name is the sequence of its characters.                                 *)
(***************************************************************************)
Digits == {"0", "1", "2", "3", "4", "5", "6", "7", "8", "9"}

Capitals ==
    {"A", "B", "C", "D", "E", "F", "G", "H", "I", "J", "K", "L", "M",
     "N", "O", "P", "Q", "R", "S", "T", "U", "V", "W", "X", "Y", "Z"}

\* re.fullmatch(r'B29[0-9][0-9][A-Z]?', model)
fullmatch(model) ==
    /\ Len(model) \in {5, 6}
    /\ model[1] = "B" /\ model[2] = "2" /\ model[3] = "9"
    /\ model[4] \in Digits /\ model[5] \in Digits
    /\ Len(model) = 6 => model[6] \in Capitals

\* str.upper(), for the letters of the model names
upper(c) == IF c = "a" THEN "A" ELSE IF c = "b" THEN "B" ELSE c

RECURSIVE strip(_)
\* str.strip()
strip(s) ==
    IF s = <<>> THEN s
    ELSE IF Head(s) = " " THEN strip(Tail(s))
    ELSE IF s[Len(s)] = " " THEN strip(SubSeq(s, 1, Len(s) - 1))
    ELSE s

DualModels ==
    {<<"B", "2", "9", "0", "2", "A">>, <<"B", "2", "9", "1", "2", "A">>,
     <<"B", "2", "9", "6", "2", "A">>}

\* variant: every accepted model has two channels
B2900_check_allDual(model, lang) ==
    IF transport = "simulated" THEN Ok(TRUE)
    ELSE IF ~fullmatch(model) THEN Err("ValueError")
    ELSE IF lang # "\"DEF\"" THEN Err("ValueError")
    ELSE Ok(TRUE)

\* B2900.__check__ : is_dual, or the error raised; model and lang are what
\* the instrument answers to *IDN? and :SYST:LANG?
B2900_check(model, lang) ==
    IF transport = "simulated" THEN Ok(TRUE)
    ELSE IF ~fullmatch(model) THEN Err("ValueError")
    ELSE IF lang # "\"DEF\"" THEN Err("ValueError")
    ELSE Ok([i \in DOMAIN strip(model) |-> upper(strip(model)[i])] \in DualModels)

\* the queries __check__ sends
CheckQueries(model) ==
    IF transport = "simulated" THEN <<>>
    ELSE <<Message("query", H(FALSE, "*IDN", 0, <<>>), <<>>)>>
         \o (IF fullmatch(model)
             THEN <<Message("query", H(TRUE, "SYST", 0, <<"LANG">>), <<>>)>>
             ELSE <<>>)

\* B2900(transport) on an instrument that identifies as model and answers
\* lang: the object exists when __check__ raised nothing
Construct(model, lang) ==
    /\ phase = "new"
    /\ is_dual' = (IF B2900_check(model, lang).ok THEN B2900_check(model, lang).val ELSE is_dual)
    /\ phase' = (IF B2900_check(model, lang).ok THEN "run" ELSE "failed")
    /\ last' = [op |-> "construct", args |-> [model |-> model, lang |-> lang],
                res |-> (IF B2900_check(model, lang).ok THEN "ok" ELSE B2900_check(model, lang).err),
                val |-> NoneV, sent |-> CheckQueries(model)]
    /\ UNCHANGED <<dev, transport, bind, sim, inst, written, nops>>

\* a B2900 class and a transport, no object yet; is_dual = False is the
\* class attribute
InitBuild ==
    /\ dev = "B2900"
    /\ transport \in {"simulated", "physical"}
    /\ is_dual = FALSE
    /\ bind = Empty
    /\ sim = Empty
    /\ inst = Empty
    /\ written = Empty
    /\ last = [op |-> "new", args |-> <<>>, res |-> "ok", val |-> NoneV, sent |-> <<>>]
    /\ nops = 0
    /\ phase = "new"

Models ==
    {<<"B", "2", "9", "0", "1", "A">>, <<"B", "2", "9", "0", "2", "A">>,
     <<"B", "2", "9", "1", "1", "A">>, <<"B", "2", "9", "1", "2", "A">>,
     <<"B", "2", "9", "6", "1", "A">>, <<"B", "2", "9", "6", "2", "A">>,
     <<"B", "2", "9", "0", "2", "B">>, <<"B", "2", "9", "0", "2">>,
     <<"b", "2", "9", "0", "2", "a">>, <<"B", "2", "9", "0", "2", "A", " ">>,
     <<"B", "2", "9", "0", "2", "A", "A">>, <<"B", "2", "9", "0", "A">>,
     <<"E", "5", "2", "7", "0", "B">>, <<"2", "4", "0", "0">>}

Languages == {"\"DEF\"", "\"2400\"", "DEF"}

Build == \E model \in Models, lang \in Languages : Construct(model, lang)

NextBuild ==
    \/ Build
    \/ Write
    \/ Read

SpecBuild == InitBuild /\ [][NextBuild]_vars

\* the models of the inputs that match B29xx, and those with two channels
AcceptedModels ==
    {<<"B", "2", "9", "0", "1", "A">>, <<"B", "2", "9", "0", "2", "A">>,
     <<"B", "2", "9", "1", "1", "A">>, <<"B", "2", "9", "1", "2", "A">>,
     <<"B", "2", "9", "6", "1", "A">>, <<"B", "2", "9", "6", "2", "A">>,
     <<"B", "2", "9", "0", "2", "B">>, <<"B", "2", "9", "0", "2">>}

TwoChannelModels ==
    {<<"B", "2", "9", "0", "2", "A">>, <<"B", "2", "9", "1", "2", "A">>,
     <<"B", "2", "9", "6", "2", "A">>}

\* the tuple and the attribute of its channel-1 entry
ChannelTuples ==
    {<<"sources", "source">>, <<"senses", "sense">>, <<"triggerings", "triggering">>,
     <<"arms", "arm">>, <<"outputs", "output">>, <<"traces", "trace">>}

\* the attributes d of the object: N entries a tuple, entry i of channel
\* i + 1, the singular attribute the first entry
Channels(d, N) ==
    \A x \in ChannelTuples :
        /\ d[x[1]].kind = "tuple"
        /\ Len(d[x[1]].nodes) = N
        /\ \A i \in 1..N : d[x[1]].nodes[i].c = i
        /\ d[x[2]].kind = "drv"
        /\ d[x[2]].node = d[x[1]].nodes[1]

\* the trigger count of entry i is written under the suffix of its channel
Addressed(dual, N) ==
    \A i \in 1..N :
        Decl("B2900", dual, Decl("B2900", dual, Root("B2900"))["triggerings"].nodes[i])["count"].cmd.w.c = i

Constructed(dual) ==
    /\ Channels(Decl("B2900", dual, Root("B2900")), IF dual THEN 2 ELSE 1)
    /\ Addressed(dual, IF dual THEN 2 ELSE 1)

\* C20: constructing a B2900 raises ValueError on a physical transport for
\* a model that does not match B29xx or a language that is not "DEF";
\* otherwise it returns with is_dual true on a simulated transport and for
\* B2902A, B2912A and B2962A, false for the other models, and with the six
\* tuples of N = 2 (dual) or 1 entries, entry i of channel i + 1, and the
\* singular attributes their first entries
C20_Construction ==
    [][last'.op = "construct" =>
          IF transport = "physical"
             /\ (last'.args.model \notin AcceptedModels \/ last'.args.lang # "\"DEF\"")
          THEN last'.res = "ValueError" /\ phase' = "failed"
          ELSE /\ last'.res = "ok" /\ phase' = "run"
               /\ is_dual' = (transport = "simulated" \/ last'.args.model \in TwoChannelModels)
               /\ Constructed(is_dual')]_vars

\* a B2901A was constructed with one channel and then used
C20_Witness ==
    /\ transport = "physical"
    /\ phase = "run"
    /\ ~is_dual
    /\ Constructed(is_dual)
    /\ last.op = "read"
    /\ last.res = "ok"

\* ------------------------------------------------------------------
\* SubSense.auto_range_limit: a Python property, not a Command.  The
\* setter builds its own message and hands it to Driver._write.
\* ------------------------------------------------------------------

\* one write message holding the units joined with '; '
Compound(units) == [dir |-> "write", hdr |-> NoHdr, data |-> <<>>, units |-> units]

Unit(hdr, data) == [hdr |-> hdr, data |-> data]

RECURSIVE Programmed(_, _, _)
Programmed(f, units, i) ==
    IF i > Len(units) THEN f
    ELSE Programmed(PutAll(f, Targets(units[i].hdr), units[i].data), units, i + 1)

\* Driver._write(text): the text goes to the transport as one message; the
\* simulated transport keeps nothing of it
DriverWrite(W, units) ==
    [W |-> IF transport = "simulated" THEN W
           ELSE [W EXCEPT !.inst = Programmed(@, units, 1)],
     res |-> "ok",
     sent |-> <<Compound(units)>>]

\* Driver._query((header, type)): a Command made for this one query
DriverQuery(W, hdr, type) ==
    [CommandQuery(W, [id |-> <<"query", hdr>>, cmd |-> Command(hdr, NoHdr, type)])
        EXCEPT !.W = W]

LimitHeader(n, which) == H(TRUE, "SENS", n.c, <<n.arg[1], "RANGE", "AUTO", which>>)

LimitQuery(n, which) == H(TRUE, "SENS", n.c, <<n.arg[1], "RANG", "AUTO", which>>)

LimitUnits(n, lo, hi) ==
    (IF lo.ok /\ lo.val # <<>> THEN <<Unit(LimitHeader(n, "LLIM"), lo.val)>> ELSE <<>>)
    \o (IF hi.ok /\ hi.val # <<>> THEN <<Unit(LimitHeader(n, "ULIM"), hi.val)>> ELSE <<>>)

\* type_.dump(v) of a limit that is not None; None is skipped
LimitDump(n, v) ==
    IF IsNone(v) THEN Ok(<<>>)
    ELSE LET e == Encode(Float(IntV(0), n.ulim), v)
         IN  IF e.ok THEN Ok(<<e.val>>) ELSE e

\* variant: the order of the limits is checked whenever both are given
SubSense_set_limits_checked(W, n, lower_, upper_, lo, hi) ==
    IF ~lo.ok THEN [W |-> W, res |-> lo.err, sent |-> <<>>]
    ELSE IF ~hi.ok THEN [W |-> W, res |-> hi.err, sent |-> <<>>]
    ELSE IF ~IsNone(lower_) /\ ~IsNone(upper_) /\ NumLt(upper_, lower_)
    THEN [W |-> W, res |-> "ValueError", sent |-> <<>>]
    ELSE DriverWrite(W, LimitUnits(n, lo, hi))

SubSense_set_limits(W, n, lower_, upper_, lo, hi) ==
    IF ~lo.ok THEN [W |-> W, res |-> lo.err, sent |-> <<>>]
    ELSE IF ~hi.ok THEN [W |-> W, res |-> hi.err, sent |-> <<>>]
    ELSE IF (Truthy(lower_) /\ Truthy(upper_)) /\ NumLt(upper_, lower_)
    THEN [W |-> W, res |-> "ValueError", sent |-> <<>>]
    ELSE DriverWrite(W, LimitUnits(n, lo, hi))

\* lower, upper = values[:2]
SubSense_set_auto_range_limit(W, n, values) ==
    IF values.t # "seq" THEN [W |-> W, res |-> "TypeError", sent |-> <<>>]
    ELSE IF Len(values.items) < 2 THEN [W |-> W, res |-> "ValueError", sent |-> <<>>]
    ELSE SubSense_set_limits(W, n, values.items[1], values.items[2],
                             LimitDump(n, values.items[1]), LimitDump(n, values.items[2]))

SubSense_get_limits(W, lower_, upper_) ==
    IF lower_.res # "ok" THEN lower_
    ELSE IF upper_.res # "ok" THEN [upper_ EXCEPT !.sent = lower_.sent \o @]
    ELSE [W |-> W, res |-> "ok", val |-> List(<<lower_.val, upper_.val>>),
          sent |-> lower_.sent \o upper_.sent]

SubSense_get_auto_range_limit(W, n) ==
    SubSense_get_limits(W,
        DriverQuery(W, LimitQuery(n, "LLIM"), Single(Float(IntV(0), n.ulim))),
        DriverQuery(W, LimitQuery(n, "ULIM"), Single(Float(IntV(0), n.ulim))))

SetLimitAt(W, t, values) ==
    IF t.res # "ok" THEN [W |-> W, res |-> t.res, sent |-> <<>>]
    ELSE SubSense_set_auto_range_limit(W, t.node, values)

GetLimitAt(W, t) ==
    IF t.res # "ok" THEN [W |-> W, res |-> t.res, val |-> NoneV, sent |-> <<>>]
    ELSE SubSense_get_auto_range_limit(W, t.node)

LimitPaths == {Sub(Sns(0), "voltage"), Sub(Sns(LastCh), "current")}

Limits == {NoneV, IntV(0), Num(0, 500000), IntV(1), IntV(2), Neg(IntV(1)), IntV(R_MAX)}

LimitValues ==
    {List(<<lo, hi>>) : lo \in Limits, hi \in Limits}
    \cup {List(<<IntV(1)>>), List(<<IntV(2), IntV(1), IntV(0)>>), IntV(1)}

SetLimit ==
    \E path \in LimitPaths, values \in LimitValues :
        /\ Running
        /\ Apply("limit", <<path, values>>, SetLimitAt(World, Walk(World, path), values), NoneV)
        /\ UNCHANGED phase

GetLimit ==
    \E path \in LimitPaths :
        /\ Running
        /\ ReadDone("limits", <<path>>, GetLimitAt(World, Walk(World, path)))
        /\ UNCHANGED phase

NextLimit == SetLimit \/ GetLimit

SpecLimit == Init /\ [][NextLimit]_vars

GivenLimits(values) == values.t = "seq" /\ Len(values.items) = 2

\* both limits lie within 0..ulim of the sub-sense at the path, or are None
LimitsInRange(W, path, values) ==
    \A i \in 1..2 : LimitDump(Walk(W, path).node, values.items[i]).ok

Misordered(values) ==
    /\ ~IsNone(values.items[1]) /\ ~IsNone(values.items[2])
    /\ NumLt(values.items[2], values.items[1])

Carries(sent, which) ==
    \E i \in 1..Len(sent[1].units) :
        sent[1].units[i].hdr.path[Len(sent[1].units[i].hdr.path)] = which

\* C21 as stated: with both limits in range, the setter raises ValueError
\* and sends nothing whenever both are given and lower > upper; otherwise
\* it sends one message holding LLIM exactly when lower is not None and
\* ULIM exactly when upper is not None
C21_AsStated ==
    [][(last'.op = "limit" /\ GivenLimits(last'.args[2])
            /\ LimitsInRange(World, last'.args[1], last'.args[2]))
          => IF Misordered(last'.args[2])
             THEN last'.res = "ValueError" /\ last'.sent = <<>>
             ELSE /\ last'.res = "ok"
                  /\ Len(last'.sent) = 1
                  /\ Carries(last'.sent, "LLIM") <=> ~IsNone(last'.args[2].items[1])
                  /\ Carries(last'.sent, "ULIM") <=> ~IsNone(last'.args[2].items[2])]_vars

\* ------------------------------------------------------------------
\* Source.invert
\* ------------------------------------------------------------------

\* value * -1
TimesMinusOne(value) == IF value.t = "num" THEN Ok(Neg(value)) ELSE Err("TypeError")

\* x.a *= -1 : the value read from x.a is multiplied and assigned
NegateRead(n, a, d, sent, g) ==
    IF g.res # "ok" THEN [W |-> g.W, res |-> g.res, sent |-> sent \o g.sent]
    ELSE IF ~TimesMinusOne(g.val).ok
    THEN [W |-> g.W, res |-> TimesMinusOne(g.val).err, sent |-> sent \o g.sent]
    ELSE LET s == SetAttrOf(g.W, n, a, TimesMinusOne(g.val).val, d)
         IN  [W |-> s.W, res |-> s.res, sent |-> sent \o g.sent \o s.sent]

Negate(W, sent, n, a, d) == NegateRead(n, a, d, sent, GetAttrOf(W, n, a, d))

\* variant: only the level is negated, the triggered level is left alone
Levels_levelOnly(sub) == <<"level">>

\* self.<sub>.level_triggered *= -1; self.<sub>.level *= -1
Levels(sub) == <<"level_triggered", "level">>

RECURSIVE NegateFrom(_, _, _, _, _)
NegateFrom(r, n, d, attrs, j) ==
    IF j > Len(attrs) \/ r.res # "ok" THEN r
    ELSE NegateFrom(Negate(r.W, r.sent, n, attrs[j], d), n, d, attrs, j + 1)

InvertFunction(r, t, sub) ==
    IF t.res # "ok" THEN [r EXCEPT !.res = t.res]
    ELSE NegateFrom(r, t.node, DeclOf(t.node), Levels(sub), 1)

\* the sub-source a name selects: 'curr...' before 'volt...'
Selects(f) ==
    IF startswith(f, "curr") THEN "current"
    ELSE IF startswith(f, "volt") THEN "voltage"
    ELSE ""

RECURSIVE InvertFrom(_, _, _, _)
InvertFrom(r, n, names, i) ==
    IF i > Len(names) \/ r.res # "ok" THEN r
    ELSE IF names[i].t # "str" THEN [r EXCEPT !.res = "AttributeError"]
    ELSE IF Selects(names[i].s) = "" THEN [r EXCEPT !.res = "ValueError"]
    ELSE InvertFrom(InvertFunction(r, WalkFrom(r.W, n, <<Attr(Selects(names[i].s))>>, 1),
                                   Selects(names[i].s)),
                    n, names, i + 1)

\* isinstance(functions, str): functions = (functions,)
AsNames(functions) == IF functions.t = "str" THEN <<functions>> ELSE functions.items

Source_invert(W, n, functions) ==
    IF functions.t \notin {"str", "seq"} THEN [W |-> W, res |-> "TypeError", sent |-> <<>>]
    ELSE InvertFrom([W |-> W, res |-> "ok", sent |-> <<>>], n, AsNames(functions), 1)

InvertAt(W, t, functions) ==
    IF t.res # "ok" THEN [W |-> W, res |-> t.res, sent |-> <<>>]
    ELSE Source_invert(W, t.node, functions)

InvertOf(W, path, functions) == InvertAt(W, Walk(W, path), functions)

LevelWrites ==
    {<<Sub(Src(0), f), a, v>> :
        f \in {"voltage", "current"}, a \in {"level", "level_triggered"},
        v \in {Num(0, 250000), Neg(Num(0, 500000))}}

InvertInputs ==
    {Str("volt"), Str("Current"), Str("resistance"),
     List(<<>>),
     List(<<Str("voltage"), Str("curr")>>),
     List(<<Str("volt"), Str("VOLT")>>),
     List(<<Str("curr"), Str("resistance")>>),
     List(<<Str("x"), Str("volt")>>)}

WriteLevel ==
    \E x \in LevelWrites : Running /\ WriteAttr(x[1], x[2], x[3]) /\ UNCHANGED phase

CallInvert ==
    \E functions \in InvertInputs :
        /\ Running
        /\ Apply("invert", <<Src(0), functions>>, InvertOf(World, Src(0), functions), NoneV)
        /\ UNCHANGED phase

NextInvert == WriteLevel \/ CallInvert

SpecInvert == Init /\ [][NextInvert]_vars

NamesOf(functions) == IF functions.t = "str" THEN <<functions>> ELSE functions.items

Named(functions, prefix) ==
    Cardinality({i \in DOMAIN NamesOf(functions) : startswith(NamesOf(functions)[i].s, prefix)})

Unknown(functions) ==
    \E i \in DOMAIN NamesOf(functions) :
        ~startswith(NamesOf(functions)[i].s, "curr") /\ ~startswith(NamesOf(functions)[i].s, "volt")

LevelOf(W, path, f, a) == ReadOf(W, Sub(path, f), a).val

SourceLevels == {"voltage", "current"} \X {"level", "level_triggered"}

PrefixOf(f) == IF f = "voltage" THEN "volt" ELSE "curr"

\* the level after k negations
NegatedTimes(k, v) == IF k % 2 = 1 THEN Neg(v) ELSE v

SenseFunctions == IF dev = "K2400" THEN K2400_sense_functions ELSE B2900_sense_functions

FunctionHeader(n, tail) == H(TRUE, "SENS", n.c, <<"FUNC">> \o tail)

\* the tokens of the table that lie in the set, in the order of the table
TokensIn(table, set) ==
    SelectSeq([i \in 1..Len(table) |-> Tok(table[i][2])], LAMBDA t : t \in set)

\* the functions the instrument has enabled, as the tokens of its response
\* to FUNC?
EnabledTokens(f, n, table) ==
    IF Canon(FunctionHeader(n, <<>>)) \in DOMAIN f THEN f[Canon(FunctionHeader(n, <<>>))]
    ELSE Simulate(Stream(Mapping(table)))

\* the instrument: FUNC and FUNC:ON enable the functions of the message,
\* FUNC:OFF disables them, FUNC:ALL enables and FUNC:OFF:ALL disables all
Switched(f, n, tail, toks, table) ==
    LET was == Range(EnabledTokens(f, n, table))
        all == {Tok(table[i][2]) : i \in 1..Len(table)}
    IN  Put(f, Canon(FunctionHeader(n, <<>>)),
            TokensIn(table,
                     CASE tail \in {<<>>, <<"ON">>} -> was \cup Range(toks)
                       [] tail = <<"OFF">> -> was \ Range(toks)
                       [] tail = <<"ALL">> -> all
                       [] tail = <<"OFF", "ALL">> -> {}))

\* one write of the function group with the dumped data d
FunctionWrite(r, n, tail, d) ==
    IF ~d.ok THEN [r EXCEPT !.res = d.err]
    ELSE [W |-> IF transport = "simulated" THEN r.W
                ELSE [r.W EXCEPT !.inst = Switched(@, n, tail, d.val, SenseFunctions)],
          res |-> "ok",
          sent |-> Append(r.sent, Message("write", FunctionHeader(n, tail), d.val))]

Started(W) == [W |-> W, res |-> "ok", sent |-> <<>>]

Sense_enable(W, n, function) ==
    FunctionWrite(Started(W), n, <<"ON">>, Dump(Single(Mapping(SenseFunctions)), <<function>>))

Sense_disable(r, n, function) ==
    FunctionWrite(r, n, <<"OFF">>, Dump(Single(Mapping(SenseFunctions)), <<function>>))

Sense_enable_all_functions(W, n) == FunctionWrite(Started(W), n, <<"ALL">>, Ok(<<>>))

Sense_disable_all_functions(W, n) == FunctionWrite(Started(W), n, <<"OFF", "ALL">>, Ok(<<>>))

Sense_available_functions == [i \in 1..Len(SenseFunctions) |-> Str(SenseFunctions[i][1])]

Sense_get_functions(W, n) ==
    DriverQuery(W, FunctionHeader(n, <<>>), Stream(Mapping(SenseFunctions)))

\* the characters of a string
Letters(s) ==
    CASE s = "voltage" -> <<"v", "o", "l", "t", "a", "g", "e">>
      [] s = "current" -> <<"c", "u", "r", "r", "e", "n", "t">>
      [] s = "resistance" -> <<"r", "e", "s", "i", "s", "t", "a", "n", "c", "e">>
      [] OTHER -> <<>>

\* for f in x: a string yields its characters, a sequence its items
Iterate(x) ==
    IF x.t = "str" THEN [i \in 1..Len(Letters(x.s)) |-> Str(Letters(x.s)[i])]
    ELSE IF x.t = "seq" THEN x.items
    ELSE <<>>

\* for f in fs: if f not in value: write FUNC:OFF f with the type
RECURSIVE DisableOthers(_, _, _, _, _, _)
DisableOthers(r, n, fs, value, type, i) ==
    IF i > Len(fs) \/ r.res # "ok" THEN r
    ELSE IF fs[i] \in Range(value) THEN DisableOthers(r, n, fs, value, type, i + 1)
    ELSE DisableOthers(FunctionWrite(r, n, <<"OFF">>, Dump(type, <<fs[i]>>)),
                       n, fs, value, type, i + 1)

K2400_set_read(r, n, value, g) ==
    IF r.res # "ok" THEN r
    ELSE IF g.res # "ok" THEN [r EXCEPT !.res = g.res, !.sent = @ \o g.sent]
    ELSE DisableOthers([r EXCEPT !.sent = @ \o g.sent], n, Iterate(g.val), value,
                       Stream(Mapping(SenseFunctions)), 1)

K2400_Sense_set_written(r, n, value) == K2400_set_read(r, n, value, Sense_get_functions(r.W, n))

K2400_Sense_set_functions(W, n, value) ==
    K2400_Sense_set_written(
        FunctionWrite(Started(W), n, <<>>, Dump(Stream(Mapping(SenseFunctions)), value)),
        n, value)

B2900_Sense_set_functions(W, n, value) ==
    DisableOthers(Sense_enable_all_functions(W, n), n, Sense_available_functions, value,
                  Single(Mapping(SenseFunctions)), 1)

Sense_set_functions(W, n, value) ==
    IF value.t \notin {"str", "seq"} THEN [W |-> W, res |-> "TypeError", sent |-> <<>>]
    ELSE IF dev = "K2400" THEN K2400_Sense_set_functions(W, n, AsNames(value))
    ELSE B2900_Sense_set_functions(W, n, AsNames(value))

FunctionSets ==
    {Str("voltage"), Str("current"),
     List(<<Str("resistance")>>),
     List(<<Str("voltage"), Str("current")>>),
     List(<<Str("resistance"), Str("current")>>),
     List(<<Str("voltage"), Str("current"), Str("resistance")>>)}

Switches == {"enable", "disable"} \X {"voltage", "current", "resistance"}

Switch(W, n, x) ==
    IF x[1] = "enable" THEN Sense_enable(W, n, Str(x[2])) ELSE Sense_disable(Started(W), n, Str(x[2]))

SwitchFunction ==
    \E x \in Switches :
        /\ Running
        /\ Apply("switch", <<Sns(0), x>>, Switch(World, Walk(World, Sns(0)).node, x), NoneV)
        /\ UNCHANGED phase

SetFunctions ==
    \E value \in FunctionSets :
        /\ Running
        /\ Apply("functions", <<Sns(0), value>>,
                 Sense_set_functions(World, Walk(World, Sns(0)).node, value), NoneV)
        /\ UNCHANGED phase

GetFunctions ==
    /\ Running
    /\ ReadDone("enabled", <<Sns(0)>>, Sense_get_functions(World, Walk(World, Sns(0)).node))
    /\ UNCHANGED phase

NextFunctions == SwitchFunction \/ SetFunctions \/ GetFunctions

SpecFunctions == Init /\ [][NextFunctions]_vars

\* the names of the functions the instrument has enabled
Enabled(W, path) ==
    {SenseFunctions[i][1] : i \in {j \in 1..Len(SenseFunctions) :
        Tok(SenseFunctions[j][2])
            \in Range(EnabledTokens(W.inst, Walk(W, path).node, SenseFunctions))}}

NameSet(value) == {NamesOf(value)[i].s : i \in DOMAIN NamesOf(value)}

\* C23 as stated: the assignment sense.functions = S, S a name or a
\* non-empty collection of names of sense functions, raises no error, and
\* on an instrument the enabled sense functions are then exactly S
C23_AsStated ==
    [][last'.op = "functions"
          => /\ last'.res = "ok"
             /\ transport = "physical"
                   => Enabled(World', last'.args[1]) = NameSet(last'.args[2])]_vars

\* ------------------------------------------------------------------
\* Construction of the meters K2000 and K6487
\* ------------------------------------------------------------------

Identifications == {"MODEL 2000", "MODEL 2010"}

IdnQuery == Message("query", H(FALSE, "*IDN", 0, <<>>), <<>>)

\* self.triggering.continuous_initiation = False
Meter_init(W) ==
    SetAttr(W, WalkFrom(W, Root(dev), <<Attr("triggering")>>, 1).node,
            "continuous_initiation", Bool(FALSE))

\* K2000(transport) and K6487(transport); only K2000 checks the
\* identification, and only on a transport that is not simulated
Meter_construct(W, idn, r) ==
    IF dev = "K2000" /\ transport # "simulated"
    THEN IF idn # "MODEL 2000" THEN [W |-> W, res |-> "ValueError", sent |-> <<IdnQuery>>]
         ELSE [r EXCEPT !.sent = <<IdnQuery>> \o @]
    ELSE r

InitMeter ==
    /\ dev \in {"K2000", "K6487"}
    /\ transport \in {"simulated", "physical"}
    /\ is_dual = FALSE
    /\ bind = Empty
    /\ sim = Empty
    /\ inst = Empty
    /\ written = Empty
    /\ last = [op |-> "init", args |-> <<>>, res |-> "ok", val |-> NoneV, sent |-> <<>>]
    /\ nops = 0
    /\ phase = "new"

ConstructMeter ==
    /\ phase = "new"
    /\ \E idn \in Identifications :
          /\ Apply("construct", <<idn>>, Meter_construct(World, idn, Meter_init(World)), NoneV)
          /\ phase' = IF last'.res = "ok" THEN "run" ELSE "failed"

MeterPaths == {<<Attr("triggering")>>, <<Attr("triggering"), Attr("trigger")>>}

MeterWrites ==
    {<<"continuous_initiation", Bool(TRUE)>>, <<"continuous_initiation", Bool(FALSE)>>,
     <<"count", IntV(5)>>, <<"delay", IntV(1)>>,
     <<"source", Str("immediate")>>, <<"source", Str("bus")>>}

WriteMeter ==
    /\ phase = "run" /\ nops <= MaxOps
    /\ \E path \in MeterPaths, x \in MeterWrites : WriteAttr(path, x[1], x[2])
    /\ UNCHANGED phase

ReadMeter ==
    /\ phase = "run" /\ nops <= MaxOps
    /\ \E path \in MeterPaths, a \in {"continuous_initiation", "count", "source"} :
          ReadAttr(path, a)
    /\ UNCHANGED phase

NextMeter == ConstructMeter \/ WriteMeter \/ ReadMeter

SpecMeter == InitMeter /\ [][NextMeter]_vars

\* the write of :INIT:CONT with the token of False is among the messages
ContinuousOff(sent) ==
    \E i \in DOMAIN sent :
        /\ sent[i].dir = "write"
        /\ sent[i].hdr = H(TRUE, "INIT", 0, <<"CONT">>)
        /\ sent[i].data = <<Tok("0")>>

\* C24 as stated: a constructor of K6487 or K2000 that returns has sent the
\* :INIT:CONT write with the false token
C24_AsStated == (last.op = "construct" /\ last.res = "ok") => ContinuousOff(last.sent)

\* ------------------------------------------------------------------
\* Setup.resistance, and the Setup methods called with any channel number
\* ------------------------------------------------------------------

ResistanceArgs(enable, mode, channel) == [enable |-> enable, mode |-> mode, channel |-> channel]

\* if mode: sense.resistance.mode = mode
Resistance_mode(r, t, mode) ==
    IF r.res # "ok" \/ ~Truthy(mode) THEN r
    ELSE IF t.res # "ok" THEN [r EXCEPT !.res = t.res]
    ELSE LET s == SetAttr(r.W, t.node, "mode", mode)
         IN  [W |-> s.W, res |-> s.res, sent |-> r.sent \o s.sent]

\* sense.enable('resistance') / sense.disable('resistance') / pass
Resistance_enable(W, n, enable) ==
    IF IsNone(enable) THEN Started(W)
    ELSE FunctionWrite(Started(W), n, IF Truthy(enable) THEN <<"ON">> ELSE <<"OFF">>,
                       Dump(Single(Mapping(SenseFunctions)), <<Str("resistance")>>))

Resistance_at(W, t, enable, mode) ==
    IF t.res # "ok" THEN [W |-> W, res |-> t.res, sent |-> <<>>]
    ELSE Resistance_mode(Resistance_enable(W, t.node, enable),
                         WalkFrom(W, t.node, <<Attr("resistance")>>, 1), mode)

\* sense = self._smu.senses[channel - 1]
Setup_resistance(W, enable, mode, channel) ==
    Resistance_at(W, Walk(W, <<Item("senses", channel - 1)>>), enable, mode)

SetupResistance(a) ==
    Apply("resistance", a, Setup_resistance(World, a.enable, a.mode, a.channel), NoneV)

\* the channel numbers tried: from -2 to two beyond the last channel
AnyChannel == (0 - 2)..(LastCh + 3)

OnChannel(A) == {[a EXCEPT !.channel = ch] : a \in A, ch \in AnyChannel}

Once == phase = "run" /\ nops <= 1

TriggeringOn ==
    \E a \in OnChannel({TrigArgs(NoneV, IntV(3), NoneV, Num(0, 200000), 1)}) :
        Once /\ SetupTriggering(a) /\ UNCHANGED phase

FixedSourceOn ==
    \E a \in OnChannel({FixedArgs("voltage", Num(0, 250000), 1), FixedArgs("current", NoneV, 1)}) :
        Once /\ SetupFixedSource(a) /\ UNCHANGED phase

SweepSourceOn ==
    \E a \in OnChannel({SweepArgs("current", IntV(0), Num(0, 1000), IntV(11), 1)}) :
        Once /\ SetupSweepSource(a) /\ UNCHANGED phase

SenseOn ==
    \E a \in OnChannel({SenseArgs("voltage", Bool(TRUE), NoneV, IntV(2), NoneV, NoneV, NoneV, 1),
                        SenseArgs("current", NoneV, NoneV, NoneV, NoneV, NoneV, NoneV, 1)}) :
        Once /\ SetupSense(a) /\ UNCHANGED phase

ResistanceOn ==
    \E a \in OnChannel({ResistanceArgs(Bool(TRUE), Str("manual"), 1),
                        ResistanceArgs(Bool(FALSE), NoneV, 1),
                        ResistanceArgs(NoneV, Str("auto"), 1)}) :
        Once /\ SetupResistance(a) /\ UNCHANGED phase

CompensationOn ==
    \E a \in OnChannel({FixedArgs("voltage", Num(0, 250000), 1)}) :
        Once /\ SetupCompensation(a) /\ UNCHANGED phase

NextChannel ==
    \/ TriggeringOn
    \/ FixedSourceOn
    \/ CompensationOn
    \/ SweepSourceOn
    \/ SenseOn
    \/ ResistanceOn

SpecChannel == Init /\ [][NextChannel]_vars

SetupMethods == {"triggering", "fixed_source", "sweep_source", "sense", "resistance"}

\* C25 as stated: a Setup method called with a channel number outside 1..N
\* raises an error and sends no command
C25_AsStated ==
    [][(last'.op \in SetupMethods /\ last'.args.channel \notin 1..(LastCh + 1))
          => (last'.res # "ok" /\ NothingWritten)]_vars

\* a setting of the instrument, or a buffer of the simulated transport,
\* that does not belong to channel c
Elsewhere(k, c) == k.c # c \/ k.root \in {"FORM", "SYST"}

ElsewhereBuffer(id, c) == id[1].c # c

SameAt(f, g, k) == (k \in DOMAIN f <=> k \in DOMAIN g) /\ (k \in DOMAIN f => f[k] = g[k])

\* the settings of the channel at tuple index o, the format and the
\* system-wide settings the claim names
SettingsOf(o) ==
    {<<Sub(Trig(o), "transient"), "count">>, <<Sub(Trig(o), "acquire"), "count">>,
     <<Src(o), "function_mode">>, <<Sns(o), "four_wire">>,
     <<<<>>, "sense_elements">>, <<<<Attr("format")>>, "elements">>}
    \cup {<<Sub(Src(o), f), a>> :
            f \in {"voltage", "current"},
            a \in {"level", "level_triggered", "mode", "sweep_start", "sweep_stop", "points"}}
    \cup {<<Sub(Sns(o), f), a>> :
            f \in {"voltage", "current"},
            a \in {"auto_range", "range", "nplc", "aperture", "compliance"}}

ReadsTheSame(W, V, x) ==
    /\ ReadOf(W, x[1], x[2]).res = "ok"
    /\ ReadOf(V, x[1], x[2]).res = "ok"
    /\ ReadOf(W, x[1], x[2]).val = ReadOf(V, x[1], x[2]).val

AllSetupMethods == SetupMethods \cup {"fixed_source_with_compensation"}

\* C26: on a two-channel B2900 a Setup method called for channel c, 1 or
\* 2, sends only messages whose header carries channel c; every setting
\* of the other channel, the format and the system-wide settings read
\* back as before the call, whether the call returned or raised
C26_ChannelFrame ==
    [][(dev = "B2900" /\ is_dual /\ last'.op \in AllSetupMethods /\ last'.args.channel \in 1..2)
          => /\ \A i \in DOMAIN last'.sent : last'.sent[i].hdr.c = last'.args.channel
             /\ \A k \in DOMAIN inst \cup DOMAIN inst' :
                   Elsewhere(k, last'.args.channel) => SameAt(inst, inst', k)
             /\ \A id \in DOMAIN sim \cup DOMAIN sim' :
                   ElsewhereBuffer(id, last'.args.channel) => SameAt(sim, sim', id)
             /\ \A x \in SettingsOf(2 - last'.args.channel) : ReadsTheSame(World, World', x)]_vars

\* a sweep programmed on channel 1 of an instrument whose channel 2 had
\* been programmed with a sweep before
C26_Witness ==
    /\ dev = "B2900" /\ is_dual /\ transport = "physical"
    /\ last.op = "sweep_source" /\ last.res = "ok" /\ last.args.channel = 1
    /\ Len(last.sent) > 0
    /\ ReadOf(World, Sub(Src(1), "current"), "points").val = IntV(11)
    /\ ReadOf(World, Sub(Src(0), "current"), "points").val = IntV(11)

\* the setting a write message of Setup.sense addresses, by its header
SettingOf(msg) ==
    LET p == msg.hdr.path
    IN  IF msg.dir # "write" \/ Len(p) = 0 THEN "none"
        ELSE IF p[Len(p)] \in {"REM", "RSEN"} THEN "four_wire"
        ELSE IF p[Len(p)] = "AUTO" THEN "auto_range"
        ELSE IF p[Len(p)] \in {"RANG", "RANGE"} THEN "range"
        ELSE IF p[Len(p)] = "NPLC" THEN "nplc"
        ELSE IF p[Len(p)] = "APER" THEN "aperture"
        ELSE IF p[Len(p)] = "PROT" THEN "compliance"
        ELSE "none"

Given(v, setting) == IF IsNone(v) THEN <<>> ELSE <<setting>>

\* one setting per argument that is not None, in the order four_wire,
\* auto_range, range, nplc or integration time, compliance
SenseOrder(a) ==
    Given(a.four_wire, "four_wire")
    \o Given(a.auto_range, "auto_range")
    \o Given(a.range_, "range")
    \o Given(a.nplc, "nplc")
    \o Given(a.integration_time, IF dev = "K2400" THEN "nplc" ELSE "aperture")
    \o Given(a.compliance, "compliance")

IsPrefix(s, t) == Len(s) <= Len(t) /\ \A i \in DOMAIN s : s[i] = t[i]

\* C27: a Setup.sense call that returns has sent exactly one write per
\* argument that is not None among four_wire, auto_range, range_, nplc,
\* integration_time and compliance, in that order, so auto_range before
\* range; a call that raises has sent a proper prefix of these writes
C27_SenseOrder ==
    [][last'.op = "sense"
          => LET settings == [i \in DOMAIN last'.sent |-> SettingOf(last'.sent[i])]
             IN  IF last'.res = "ok" THEN settings = SenseOrder(last'.args)
                 ELSE IsPrefix(settings, SenseOrder(last'.args))
                      /\ (settings # SenseOrder(last'.args) \/ settings = <<>>)]_vars

\* a returned call that wrote auto_range, then range, then compliance
C27_Witness ==
    /\ last.op = "sense" /\ last.res = "ok"
    /\ ~IsNone(last.args.auto_range) /\ ~IsNone(last.args.range_)
    /\ Len(last.sent) >= 3
    /\ \E i \in DOMAIN last.sent :
          /\ i < Len(last.sent)
          /\ SettingOf(last.sent[i]) = "auto_range"
          /\ SettingOf(last.sent[i + 1]) = "range"

\* ------------------------------------------------------------------
\* The number of sweep points of the two sub-sources
\* ------------------------------------------------------------------

SubSources == {"voltage", "current"}

PointsWrites ==
    {<<Sub(Src(0), f), a, v>> :
        f \in SubSources, a \in {"sweep_points", "points"}, v \in {IntV(5), IntV(11), IntV(0)}}

WritePoints ==
    \E x \in PointsWrites : Running /\ WriteAttr(x[1], x[2], x[3]) /\ UNCHANGED phase

ReadPoints ==
    \E f \in SubSources : Running /\ ReadAttr(Sub(Src(0), f), "sweep_points") /\ UNCHANGED phase

SweepPoints ==
    \E a \in {SweepArgs(f, IntV(0), Num(0, 100000), IntV(21), 1) : f \in SubSources} :
        Running /\ SetupSweepSource(a) /\ UNCHANGED phase

NextPoints == WritePoints \/ ReadPoints \/ SweepPoints

SpecPoints == Init /\ [][NextPoints]_vars

OtherFunction(f) == IF f = "voltage" THEN "current" ELSE "voltage"

PointsOf(W, f) == ReadOf(W, Sub(Src(0), f), "sweep_points").val

\* the sub-source a call programmed the sweep points of, "" if none
PointsWrittenOf(l) ==
    IF l.res # "ok" THEN ""
    ELSE IF l.op = "sweep_source" THEN l.args.function
    ELSE IF l.op = "write" THEN l.args[1][Len(l.args[1])].a
    ELSE ""

\* C28 as stated: writing the sweep points of one sub-source, directly or
\* by Setup.sweep_source, leaves the sweep points of the other sub-source
\* of the channel as they were
C28_AsStated ==
    [][PointsWrittenOf(last') \in SubSources
          => PointsOf(World', OtherFunction(PointsWrittenOf(last')))
               = PointsOf(World, OtherFunction(PointsWrittenOf(last')))]_vars

====
